---- MODULE Spec2Model ----
(***************************************************************************)
(* Cash-closure component of the laundry back office (CashClosure, the      *)
(* React component in src/unnamed/part_002): the daily summary it derives   *)
(* from the fetched invoices, payment methods and employees, the system     *)
(* cash and the variance, and the create-cash-closure request.              *)
(*                                                                         *)
(* JavaScript numbers are IEEE-754 doubles.  A double is modelled exactly:  *)
(* its magnitude is a fixed-point number of NLimbs limbs in base Base       *)
(* (one integer limb, four fraction limbs, i.e. multiples of 2^-64), and    *)
(* every arithmetic result is rounded to Precision significant bits,        *)
(* round-half-to-even, as the hardware does.  Every double between 2^-11    *)
(* and 2^16 is on that grid.                                                *)
(***************************************************************************)
EXTENDS Integers, Sequences, FiniteSets, TLC

----------------------------------------------------------------------------
(* IEEE-754 double arithmetic                                               *)

LimbBits == 16
NLimbs == 5
Precision == 53

Base == 2 ^ LimbBits

RECURSIVE BitLen(_)
BitLen(n) == IF n = 0 THEN 0 ELSE 1 + BitLen(n \div 2)

MagZero == [i \in 1..NLimbs |-> 0]

RECURSIVE MagAddRec(_, _, _, _)
MagAddRec(a, b, i, carry) ==
  IF i = 0 THEN <<>>
  ELSE LET s == a[i] + b[i] + carry
       IN  Append(MagAddRec(a, b, i - 1, s \div Base), s % Base)

\* a + b, exact
MagAdd(a, b) == MagAddRec(a, b, NLimbs, 0)

RECURSIVE MagSubRec(_, _, _, _)
MagSubRec(a, b, i, borrow) ==
  IF i = 0 THEN <<>>
  ELSE LET d == a[i] - b[i] - borrow
       IN  Append(MagSubRec(a, b, i - 1, IF d < 0 THEN 1 ELSE 0),
                  IF d < 0 THEN d + Base ELSE d)

\* a - b, exact, for a >= b
MagSub(a, b) == MagSubRec(a, b, NLimbs, 0)

RECURSIVE MagLessFrom(_, _, _)
MagLessFrom(a, b, i) ==
  IF i > NLimbs THEN FALSE
  ELSE IF a[i] # b[i] THEN a[i] < b[i]
  ELSE MagLessFrom(a, b, i + 1)

MagLess(a, b) == MagLessFrom(a, b, 1)

RECURSIVE MagBitLenFrom(_, _)
MagBitLenFrom(a, i) ==
  IF i > NLimbs THEN 0
  ELSE IF a[i] # 0 THEN (NLimbs - i) * LimbBits + BitLen(a[i])
  ELSE MagBitLenFrom(a, i + 1)

MagBitLen(a) == MagBitLenFrom(a, 1)

\* a rounded to Precision significant bits, ties to even; sticky says that
\* the exact value lies strictly above a (bits lost below the grid)
MagRound(a, sticky) ==
  LET len == MagBitLen(a) IN
  IF len <= Precision THEN a
  ELSE
    LET shift == len - Precision
        r     == shift % LimbBits
        k     == NLimbs - (shift \div LimbBits)
        p     == 2 ^ r
        lowK  == a[k] % p
        unit  == [i \in 1..NLimbs |-> IF i = k THEN p ELSE 0]
        half  == [i \in 1..NLimbs |->
                    IF r > 0 THEN (IF i = k THEN p \div 2 ELSE 0)
                    ELSE (IF i = k + 1 THEN Base \div 2 ELSE 0)]
        low   == [i \in 1..NLimbs |->
                    IF i < k THEN 0 ELSE IF i = k THEN lowK ELSE a[i]]
        trunc == [i \in 1..NLimbs |->
                    IF i < k THEN a[i] ELSE IF i = k THEN a[k] - lowK ELSE 0]
        odd   == (a[k] \div p) % 2 = 1
        up    == \/ MagLess(half, low)
                 \/ low = half /\ (sticky \/ odd)
    IN  IF up THEN MagAdd(trunc, unit) ELSE trunc

NaN == [kind |-> "NaN"]

Num(neg, mag) == [kind |-> "num", neg |-> (neg /\ mag # MagZero), mag |-> mag]

FZero == Num(FALSE, MagZero)

IsNaN(x) == x.kind = "NaN"

\* the double nearest to the integer n (0 <= n < Base)
FInt(n) == Num(FALSE, [i \in 1..NLimbs |-> IF i = 1 THEN n ELSE 0])

FNeg(x) == IF IsNaN(x) THEN NaN ELSE Num(~x.neg, x.mag)

\* x + y of JavaScript
FAdd(x, y) ==
  IF IsNaN(x) \/ IsNaN(y) THEN NaN
  ELSE IF x.neg = y.neg THEN Num(x.neg, MagRound(MagAdd(x.mag, y.mag), FALSE))
  ELSE IF MagLess(x.mag, y.mag)
       THEN Num(y.neg, MagRound(MagSub(y.mag, x.mag), FALSE))
       ELSE Num(x.neg, MagRound(MagSub(x.mag, y.mag), FALSE))

\* x - y of JavaScript
FSub(x, y) == FAdd(x, FNeg(y))

\* x < y of JavaScript (false when either is NaN)
FLess(x, y) ==
  /\ ~IsNaN(x)
  /\ ~IsNaN(y)
  /\ IF x.neg /\ ~y.neg THEN TRUE
     ELSE IF ~x.neg /\ y.neg THEN FALSE
     ELSE IF x.neg THEN MagLess(y.mag, x.mag)
     ELSE MagLess(x.mag, y.mag)

\* x || 0 of JavaScript: NaN and 0 are falsy
OrZero(x) == IF IsNaN(x) THEN FZero ELSE x

----------------------------------------------------------------------------
(* parseFloat.  A string that holds an amount is a sequence of one-character*)
(* strings.  parseFloat reads the longest prefix of the form                *)
(* [-] digits [. digits] and yields NaN when that prefix has no digit.      *)

Digits == <<"0", "1", "2", "3", "4", "5", "6", "7", "8", "9">>

DigitChars == {Digits[d] : d \in 1..10}

IsDigit(c) == c \in DigitChars

DigitVal(c) == (CHOOSE d \in 1..10 : Digits[d] = c) - 1

\* index of the first non-digit of s at or after i
RECURSIVE DigitsEnd(_, _)
DigitsEnd(s, i) ==
  IF i <= Len(s) /\ IsDigit(s[i]) THEN DigitsEnd(s, i + 1) ELSE i

\* value of the digits s[i..j-1] following the value acc
RECURSIVE DigitsVal(_, _, _, _)
DigitsVal(s, i, j, acc) ==
  IF i >= j THEN acc ELSE DigitsVal(s, i + 1, j, 10 * acc + DigitVal(s[i]))

\* limbs and remainder of (n * Base^(NLimbs-1)) / d, by long division
RECURSIVE MagDivRec(_, _, _, _)
MagDivRec(n, d, i, rem) ==
  IF i > NLimbs THEN [mag |-> <<>>, rem |-> rem]
  ELSE LET cur  == rem * Base + (IF i = 1 THEN n ELSE 0)
           rest == MagDivRec(n, d, i + 1, cur % d)
       IN  [mag |-> <<cur \div d>> \o rest.mag, rem |-> rest.rem]

parseFloat(s) ==
  LET neg      == Len(s) > 0 /\ s[1] = "-"
      start    == IF neg THEN 2 ELSE 1
      intEnd   == DigitsEnd(s, start)
      hasPoint == intEnd <= Len(s) /\ s[intEnd] = "."
      fracEnd  == IF hasPoint THEN DigitsEnd(s, intEnd + 1) ELSE intEnd
      nInt     == intEnd - start
      nFrac    == IF hasPoint THEN fracEnd - (intEnd + 1) ELSE 0
      intVal   == DigitsVal(s, start, intEnd, 0)
      allVal   == IF hasPoint THEN DigitsVal(s, intEnd + 1, fracEnd, intVal)
                  ELSE intVal
      quot     == MagDivRec(allVal, 10 ^ nFrac, 1, 0)
  IN  IF nInt + nFrac = 0 THEN NaN
      ELSE Num(neg, MagRound(quot.mag, quot.rem # 0))

----------------------------------------------------------------------------
(* JavaScript objects used as maps: the own keys in insertion order.  An    *)
(* object is a sequence of [key, val]; assigning to a key it has replaces   *)
(* the value in place, assigning to a new key appends.                      *)

RECURSIVE ObjIndexFrom(_, _, _)
ObjIndexFrom(obj, key, i) ==
  IF i > Len(obj) THEN 0
  ELSE IF obj[i].key = key THEN i
  ELSE ObjIndexFrom(obj, key, i + 1)

ObjIndex(obj, key) == ObjIndexFrom(obj, key, 1)

ObjHas(obj, key) == ObjIndex(obj, key) # 0

ObjGet(obj, key) == obj[ObjIndex(obj, key)].val

ObjSet(obj, key, val) ==
  IF ObjHas(obj, key)
  THEN [obj EXCEPT ![ObjIndex(obj, key)] = [key |-> key, val |-> val]]
  ELSE Append(obj, [key |-> key, val |-> val])

ObjKeys(obj) == {obj[i].key : i \in 1..Len(obj)}

----------------------------------------------------------------------------
(* The daily summary (dailySummary, systemCash, variance)                   *)

\* invoice.paymentMethod of an invoice that has none
Null == "<null>"

Pendiente == "Pendiente"
Desconocido == "Desconocido"

\* a delivered filter that forgets the paid flag
DeliveredUnpaidToo(invoice) == invoice.status = "delivered"

\* invoices.filter(invoice => invoice.status === 'delivered' && invoice.paid)
IsDelivered(invoice) == invoice.status = "delivered" /\ invoice.paid

\* invoices.filter(invoice => !invoice.paid && invoice.status !== 'cancelled')
IsPending(invoice) == ~invoice.paid /\ invoice.status # "cancelled"

DeliveredOf(invs) == SelectSeq(invs, IsDelivered)

PendingOf(invs) == SelectSeq(invs, IsPending)

\* paymentMethods.find(m => m.code === code): its index, 0 when there is none
RECURSIVE FindMethodFrom(_, _, _)
FindMethodFrom(pms, code, i) ==
  IF i > Len(pms) THEN 0
  ELSE IF pms[i].code = code THEN i
  ELSE FindMethodFrom(pms, code, i + 1)

FindMethod(pms, code) == FindMethodFrom(pms, code, 1)

\* employees.find(e => e.id === id): its index, 0 when there is none
RECURSIVE FindEmployeeFrom(_, _, _)
FindEmployeeFrom(emps, id, i) ==
  IF i > Len(emps) THEN 0
  ELSE IF emps[i].id = id THEN i
  ELSE FindEmployeeFrom(emps, id, i + 1)

FindEmployee(emps, id) == FindEmployeeFrom(emps, id, 1)

\* a lookup that falls back to the first configured method
MethodNameOrFirst(pms, invoice) ==
  LET i == FindMethod(pms, invoice.paymentMethod)
  IN  IF i # 0 THEN pms[i].name
      ELSE IF Len(pms) > 0 THEN pms[1].name ELSE Pendiente

\* paymentMethods.find(...)?.name || 'Pendiente'
MethodNameOf(pms, invoice) ==
  LET i == FindMethod(pms, invoice.paymentMethod)
  IN  IF i = 0 \/ pms[i].name = "" THEN Pendiente ELSE pms[i].name

\* employee?.name || 'Desconocido'
EmployeeNameOf(emps, invoice) ==
  LET i == FindEmployee(emps, invoice.employeeId)
  IN  IF i = 0 \/ emps[i].name = "" THEN Desconocido ELSE emps[i].name

ZeroPayment == [quantity |-> 0, total |-> FZero]

\* one zeroed entry per payment method, then the 'Pendiente' entry
RECURSIVE SeedMethods(_, _, _)
SeedMethods(obj, pms, i) ==
  IF i > Len(pms) THEN obj
  ELSE SeedMethods(ObjSet(obj, pms[i].name, ZeroPayment), pms, i + 1)

\* a seed without the 'Pendiente' entry
SeedWithoutPendiente(pms) == SeedMethods(<<>>, pms, 1)

SeedPaymentSummary(pms) ==
  ObjSet(SeedMethods(<<>>, pms, 1), Pendiente, ZeroPayment)

\* the body of deliveredInvoices.forEach for the payment summary
AddPayment(obj, pms, invoice) ==
  LET methodName == MethodNameOf(pms, invoice)
  IN  IF ObjHas(obj, methodName)
      THEN LET e == ObjGet(obj, methodName)
           IN  ObjSet(obj, methodName,
                      [quantity |-> e.quantity + 1,
                       total    |-> FAdd(e.total, parseFloat(invoice.total))])
      ELSE obj

RECURSIVE AddPayments(_, _, _, _)
AddPayments(obj, pms, delivered, i) ==
  IF i > Len(delivered) THEN obj
  ELSE AddPayments(AddPayment(obj, pms, delivered[i]), pms, delivered, i + 1)

PaymentSummaryOf(invs, pms) ==
  AddPayments(SeedPaymentSummary(pms), pms, DeliveredOf(invs), 1)

\* the body of deliveredInvoices.forEach for the employee statistics
AddSale(obj, emps, invoice) ==
  LET employeeName == EmployeeNameOf(emps, invoice)
      e == IF ObjHas(obj, employeeName) THEN ObjGet(obj, employeeName)
           ELSE [sales |-> 0, total |-> FZero]
  IN  ObjSet(obj, employeeName,
             [sales |-> e.sales + 1,
              total |-> FAdd(e.total, parseFloat(invoice.total))])

RECURSIVE AddSales(_, _, _, _)
AddSales(obj, emps, delivered, i) ==
  IF i > Len(delivered) THEN obj
  ELSE AddSales(AddSale(obj, emps, delivered[i]), emps, delivered, i + 1)

EmployeeStatsOf(invs, emps) == AddSales(<<>>, emps, DeliveredOf(invs), 1)

\* deliveredInvoices.reduce((sum, inv) => sum + parseFloat(inv[field]), 0)
RECURSIVE ReduceSum(_, _, _, _)
ReduceSum(delivered, field, i, sum) ==
  IF i > Len(delivered) THEN sum
  ELSE ReduceSum(delivered, field, i + 1,
                 FAdd(sum, parseFloat(delivered[i][field])))

DailySummaryOf(invs, pms, emps) ==
  [totalInvoices     |-> Len(invs),
   deliveredInvoices |-> Len(DeliveredOf(invs)),
   pendingInvoices   |-> Len(PendingOf(invs)),
   totalRevenue      |-> ReduceSum(DeliveredOf(invs), "total", 1, FZero),
   totalSubtotal     |-> ReduceSum(DeliveredOf(invs), "subtotal", 1, FZero),
   totalTax          |-> ReduceSum(DeliveredOf(invs), "tax", 1, FZero),
   totalItems        |-> Len(invs),
   urgentOrders      |-> 0,
   paymentSummary    |-> PaymentSummaryOf(invs, pms),
   employeeStats     |-> EmployeeStatsOf(invs, emps)]

SystemCashOf(opening, paymentSummary, pms) ==
  IF Len(pms) = 0 THEN FZero
  ELSE LET i == FindMethod(pms, "cash") IN
       IF i = 0 THEN FZero
       ELSE LET total == IF ObjHas(paymentSummary, pms[i].name)
                         THEN OrZero(ObjGet(paymentSummary, pms[i].name).total)
                         ELSE FZero
            IN  FAdd(parseFloat(opening), total)

\* a variance with the operands exchanged
VarianceSwapped(counted, sysCash) ==
  FSub(sysCash, OrZero(parseFloat(counted)))

VarianceOf(counted, sysCash) == FSub(OrZero(parseFloat(counted)), sysCash)

----------------------------------------------------------------------------
(* Input domains                                                            *)

MaxInvoices == 3

\* the date of construction, and one more date
Today == "2025-03-01"
Dates == {Today, "2025-03-02"}

Cash    == [code |-> "cash", name |-> "Efectivo"]
Card    == [code |-> "card", name |-> "Tarjeta"]
\* a second method with the code of Cash, and one with the name of Cash
Caja    == [code |-> "cash", name |-> "Caja"]
Bono    == [code |-> "bono", name |-> "Efectivo"]

Ana  == [id |-> "e1", name |-> "Ana"]
Luis == [id |-> "e2", name |-> "Luis"]

Amt(total, subtotal, tax) == [total |-> total, subtotal |-> subtotal, tax |-> tax]

Amt010 == Amt(<<"0", ".", "1", "0">>, <<"0", ".", "0", "8">>, <<"0", ".", "0", "2">>)
Amt020 == Amt(<<"0", ".", "2", "0">>, <<"0", ".", "1", "7">>, <<"0", ".", "0", "3">>)
Amt030 == Amt(<<"0", ".", "3", "0">>, <<"0", ".", "2", "5">>, <<"0", ".", "0", "5">>)
Amt50  == Amt(<<"5", "0", ".", "0", "0">>, <<"4", "2", ".", "3", "7">>, <<"7", ".", "6", "3">>)
\* an invoice whose total is not a number
AmtBad == Amt(<<"n", "/", "a">>, <<"0", ".", "2", "5">>, <<"0", ".", "0", "5">>)

Inv(status, paid, paymentMethod, employeeId, amt) ==
  [status |-> status, paid |-> paid, paymentMethod |-> paymentMethod,
   employeeId |-> employeeId, total |-> amt.total, subtotal |-> amt.subtotal,
   tax |-> amt.tax]

InvoiceDomain ==
  { Inv("delivered", TRUE, "cash", "e1", Amt010),
    Inv("delivered", TRUE, "card", "e2", Amt020),
    Inv("delivered", TRUE, "xyz", "e9", Amt030),
    Inv("delivered", TRUE, Null, "e1", Amt020),
    Inv("delivered", FALSE, "cash", "e1", Amt020),
    Inv("ready", TRUE, "card", "e1", Amt010),
    Inv("cancelled", FALSE, "cash", "e2", Amt030) }

SummaryInvoiceLists == UNION {[1..n -> InvoiceDomain] : n \in 0..MaxInvoices}

SummaryMethodLists == { <<>>, <<Card>>, <<Cash, Card>>, <<Cash, Bono>> }

SummaryEmployeeLists == { <<Ana>>, <<Ana, Luis>> }

CashInvoiceLists ==
  { <<>>,
    <<Inv("delivered", TRUE, "cash", "e1", Amt50)>>,
    <<Inv("delivered", TRUE, "cash", "e1", AmtBad)>>,
    <<Inv("delivered", TRUE, "cash", "e1", Amt010),
      Inv("delivered", TRUE, "cash", "e1", Amt020)>>,
    <<Inv("delivered", TRUE, "card", "e1", Amt50)>> }

CashMethodLists == { <<>>, <<Card>>, <<Cash, Card>>, <<Caja, Cash>> }

CashEmployeeLists == { <<Ana>> }

\* what <input type="number"> hands to onChange: the empty string, or a number
OpeningInputs ==
  { <<>>, <<"0">>, <<"1", "0", "0", ".", "0", "0">>, <<"0", ".", "3", "0">> }

CountedInputs ==
  { <<>>, <<"0">>, <<"1", "4", "0", ".", "0", "0">>, <<"0", ".", "3", "0">>,
    <<"-", "5">> }

\* the inputs typed in the closure lifecycle
ClosureOpeningInputs == { <<>>, <<"0">>, <<"-", "5">> }

ClosureCountedInputs ==
  { <<>>, <<"0">>, <<"1", "4", "0", ".", "0", "0">>, <<"-", "5">> }

\* what the operator counts in the closure lifecycle, in this session and in
\* the other one
LifecycleCountedInputs == { <<"0">>, <<"1", "4", "0", ".", "0", "0">> }

OtherCountedInputs == { <<"2", "5", ".", "0", "0">>, <<"-", "5">> }

NotesInputs == { "", "faltante" }

\* instants, in hours from 2025-03-01T00:00Z, and the calendar day an instant
\* falls on at an offset from UTC
HoursPerDay == 24
DayOf(instant, offset) == (instant + offset) \div HoursPerDay

\* the YYYY-MM-DD text of a day
DayName(day) ==
  CASE day = -1 -> "2025-02-28"
    [] day = 0  -> Today
    [] day = 1  -> "2025-03-02"
    [] OTHER    -> "2025-03-03"

\* invoice.date: no date, or <<instant>>
NoDate == <<>>

\* new Date(invoice.date).toISOString().split('T')[0]: the day in UTC
IsoDate(instant) == DayName(DayOf(instant, 0))

\* the filter of the invoices queryFn
OnSelectedDate(invoice, date) ==
  invoice.date # NoDate /\ IsoDate(invoice.date[1]) = date

RECURSIVE FilterByDate(_, _)
FilterByDate(data, date) ==
  IF data = <<>> THEN <<>>
  ELSE IF OnSelectedDate(Head(data), date)
       THEN <<Head(data)>> \o FilterByDate(Tail(data), date)
       ELSE FilterByDate(Tail(data), date)

\* invoices of the store: their date is an instant, or missing
Dated(date) ==
  [status |-> "delivered", paid |-> TRUE, paymentMethod |-> "cash",
   employeeId |-> "e1", total |-> Amt010.total, subtotal |-> Amt010.subtotal,
   tax |-> Amt010.tax, date |-> date]

\* 22:00Z the day before, 10:00Z, 02:00Z and 16:00Z the day after, no date
StoredInstants == {-2, 10, 26, 40}
StoredInvoices == {Dated(<<t>>) : t \in StoredInstants} \cup {Dated(NoDate)}

MaxStored == 2
StoredLists == UNION {[1..n -> StoredInvoices] : n \in 1..MaxStored}

----------------------------------------------------------------------------
(* The component and the closure store                                      *)

VARIABLES
  selectedDate,           \* useState: the business date
  invoices,               \* data of the invoices query (default [])
  invoicesLoading,
  paymentMethods,         \* data of the payment-methods query (default [])
  paymentMethodsLoading,
  employees,              \* data of the employees query (default [])
  employeesLoading,
  existingClosure,        \* data of the by-date query
  closureLoading,
  openingCash,            \* useState strings of the form
  countedCash,
  notes,
  showCashForm,
  dailySummary,           \* useMemo values
  systemCash,
  variance,
  isPending,              \* createCashClosureMutation.isPending
  toast,                  \* the last toast shown
  posts,                  \* POST /api/cash-closures requests in flight
  reply,                  \* the response to this client's request
  closures,               \* rows of the cash-closure store
  failed,                 \* the list queries that ended in an error
  invoiceStore            \* rows GET /api/invoices answers with

queryVars == <<selectedDate, invoices, invoicesLoading, paymentMethods,
               paymentMethodsLoading, employees, employeesLoading,
               existingClosure, closureLoading, failed>>
formVars  == <<openingCash, countedCash, notes, showCashForm>>
memoVars  == <<dailySummary, systemCash, variance>>
storeVars == <<isPending, toast, posts, reply, closures, invoiceStore>>

\* the serverless API: its tables, the clock, the registrations under way and
\* the last response sent
VARIABLES
  organizations,          \* rows of the organizations table
  users,                  \* rows of the users table
  userSessions,           \* rows of the user_sessions table
  registrations,          \* register handlers between two awaits
  now,                    \* the server clock, in days
  response                \* the last response a handler sent

apiVars == <<organizations, users, userSessions, registrations, now, response>>
uiVars == <<queryVars, formVars, memoVars, storeVars>>

\* the Express server process (server/index.ts, server/config.ts,
\* server/email-service.ts) and the production validation script
VARIABLES
  config,                 \* <<>> until server/config.ts is loaded, then <<config>>
  outbox,                 \* the calls of the EmailService send methods
  build,                  \* which copy of the entry file runs
  server,                 \* the HTTP server: "created", "bound", "listening",
                          \* "closing", "closed"
  syncWorker,             \* the Airtable sync worker: "idle", "running", "stopped"
  connections,            \* open connections of the HTTP server
  closeCallbacks,         \* callbacks given to server.close, not yet run
  forceExit,              \* the 10 s force-exit timer is armed
  exitCode,               \* <<>> while the server process runs, then <<code>>
  scriptEnv,              \* process.env of the validation script
  pc,                     \* where the validation script is
  hasErrors,              \* module variables of the validation script
  hasWarnings,
  securityRan,            \* checkSecurity has run
  scriptExit              \* <<>> while the script runs, then <<code>>

mailVars == <<config, outbox>>
serverVars == <<build, server, syncWorker, connections, closeCallbacks,
                forceExit, exitCode>>
scriptVars == <<scriptEnv, pc, hasErrors, hasWarnings, securityRan, scriptExit>>
hostVars == <<mailVars, serverVars, scriptVars>>

vars == <<queryVars, formVars, memoVars, storeVars, apiVars, hostVars>>

\* no response sent yet
NoResponse == [handler |-> "none"]

\* data of the by-date query: none yet, null (404), or a row of the store
Undefined   == [kind |-> "undefined"]
NullClosure == [kind |-> "null"]
ClosureRow(row) == [kind |-> "row", row |-> row]

Init ==
  /\ selectedDate = Today
  /\ invoices = <<>>
  /\ invoicesLoading = TRUE
  /\ paymentMethods = <<>>
  /\ paymentMethodsLoading = TRUE
  /\ employees = <<>>
  /\ employeesLoading = TRUE
  /\ existingClosure = Undefined
  /\ closureLoading = TRUE
  /\ openingCash = <<"0">>
  /\ countedCash = <<"0">>
  /\ notes = ""
  /\ showCashForm = FALSE
  /\ dailySummary = DailySummaryOf(<<>>, <<>>, <<>>)
  /\ systemCash = SystemCashOf(<<"0">>, dailySummary.paymentSummary, <<>>)
  /\ variance = VarianceOf(<<"0">>, systemCash)
  /\ isPending = FALSE
  /\ toast = "none"
  /\ posts = {}
  /\ reply = "none"
  /\ closures = <<>>
  /\ failed = {}
  /\ invoiceStore = <<>>
  /\ organizations = <<>>
  /\ users = <<>>
  /\ userSessions = <<>>
  /\ registrations = {}
  /\ now = 0
  /\ response = NoResponse
  /\ config = <<>>
  /\ outbox = <<>>
  /\ server = "created"
  /\ syncWorker = "idle"
  /\ connections = 0
  /\ closeCallbacks = <<>>
  /\ forceExit = FALSE
  /\ exitCode = <<>>
  /\ build = "none"
  /\ scriptEnv = <<>>
  /\ pc = "start"
  /\ hasErrors = FALSE
  /\ hasWarnings = FALSE
  /\ securityRan = FALSE
  /\ scriptExit = <<>>

\* the three useMemo hooks, run by the render that follows a change of their
\* dependencies
Render ==
  /\ dailySummary' = DailySummaryOf(invoices', paymentMethods', employees')
  /\ systemCash' = SystemCashOf(openingCash', dailySummary'.paymentSummary,
                                paymentMethods')
  /\ variance' = VarianceOf(countedCash', systemCash')

\* the component shows the spinner and nothing else while a query is loading
Rendered ==
  ~(invoicesLoading \/ paymentMethodsLoading \/ employeesLoading
      \/ closureLoading)

\* {!existingClosure && ...}: the counting form block
FormOffered == Rendered /\ existingClosure \in {Undefined, NullClosure}

FormShown == FormOffered /\ showCashForm

\* the invoices query resolves with the invoices of the selected date
LoadInvoices(lists) ==
  /\ invoicesLoading
  /\ \E l \in lists : invoices' = l
  /\ invoicesLoading' = FALSE
  /\ UNCHANGED <<selectedDate, paymentMethods, paymentMethodsLoading, employees,
                 employeesLoading, existingClosure, closureLoading, failed>>
  /\ UNCHANGED <<formVars, storeVars>>
  /\ Render
  /\ UNCHANGED <<apiVars, hostVars>>

LoadPaymentMethods(lists) ==
  /\ paymentMethodsLoading
  /\ \E l \in lists : paymentMethods' = l
  /\ paymentMethodsLoading' = FALSE
  /\ UNCHANGED <<selectedDate, invoices, invoicesLoading, employees,
                 employeesLoading, existingClosure, closureLoading, failed>>
  /\ UNCHANGED <<formVars, storeVars>>
  /\ Render
  /\ UNCHANGED <<apiVars, hostVars>>

LoadEmployees(lists) ==
  /\ employeesLoading
  /\ \E l \in lists : employees' = l
  /\ employeesLoading' = FALSE
  /\ UNCHANGED <<selectedDate, invoices, invoicesLoading, paymentMethods,
                 paymentMethodsLoading, existingClosure, closureLoading, failed>>
  /\ UNCHANGED <<formVars, storeVars>>
  /\ Render
  /\ UNCHANGED <<apiVars, hostVars>>

\* invoices are written to the invoice store (by the counter, another screen)
StoreInvoices(lists) ==
  /\ invoiceStore = <<>>
  /\ \E l \in lists : invoiceStore' = l
  /\ UNCHANGED <<isPending, toast, posts, reply, closures>>
  /\ UNCHANGED <<queryVars, formVars, memoVars>>
  /\ UNCHANGED <<apiVars, hostVars>>

\* the invoices query resolves: GET /api/invoices, then the filter by date
FetchInvoices ==
  /\ invoicesLoading
  /\ invoices' = FilterByDate(invoiceStore, selectedDate)
  /\ invoicesLoading' = FALSE
  /\ UNCHANGED <<selectedDate, paymentMethods, paymentMethodsLoading, employees,
                 employeesLoading, existingClosure, closureLoading, failed>>
  /\ UNCHANGED <<formVars, storeVars>>
  /\ Render
  /\ UNCHANGED <<apiVars, hostVars>>

\* a list query ends in an error (response not ok, queryFn throws): it stops
\* loading and its data stays undefined, so the list keeps its default []
FailInvoices ==
  /\ invoicesLoading
  /\ invoicesLoading' = FALSE
  /\ failed' = failed \cup {"invoices"}
  /\ UNCHANGED <<selectedDate, invoices, paymentMethods, paymentMethodsLoading,
                 employees, employeesLoading, existingClosure, closureLoading>>
  /\ UNCHANGED <<formVars, storeVars>>
  /\ Render
  /\ UNCHANGED <<apiVars, hostVars>>

FailPaymentMethods ==
  /\ paymentMethodsLoading
  /\ paymentMethodsLoading' = FALSE
  /\ failed' = failed \cup {"paymentMethods"}
  /\ UNCHANGED <<selectedDate, invoices, invoicesLoading, paymentMethods,
                 employees, employeesLoading, existingClosure, closureLoading>>
  /\ UNCHANGED <<formVars, storeVars>>
  /\ Render
  /\ UNCHANGED <<apiVars, hostVars>>

FailEmployees ==
  /\ employeesLoading
  /\ employeesLoading' = FALSE
  /\ failed' = failed \cup {"employees"}
  /\ UNCHANGED <<selectedDate, invoices, invoicesLoading, paymentMethods,
                 paymentMethodsLoading, employees, existingClosure,
                 closureLoading>>
  /\ UNCHANGED <<formVars, storeVars>>
  /\ Render
  /\ UNCHANGED <<apiVars, hostVars>>

\* onChange of the date input
SetSelectedDate ==
  /\ Rendered
  /\ \E d \in Dates \ {selectedDate} : selectedDate' = d
  /\ invoices' = <<>>
  /\ invoicesLoading' = TRUE
  /\ existingClosure' = Undefined
  /\ closureLoading' = TRUE
  /\ failed' = failed \ {"invoices"}
  /\ UNCHANGED <<paymentMethods, paymentMethodsLoading, employees,
                 employeesLoading>>
  /\ UNCHANGED <<formVars, storeVars>>
  /\ Render
  /\ UNCHANGED <<apiVars, hostVars>>

\* the row GET /api/cash-closures/by-date/:date answers with, or null (404)
ClosureByDate(rows, date) ==
  IF \E i \in 1..Len(rows) : rows[i].closingDate = date
  THEN ClosureRow(rows[CHOOSE i \in 1..Len(rows) :
                         /\ rows[i].closingDate = date
                         /\ \A j \in 1..(i - 1) : rows[j].closingDate # date])
  ELSE NullClosure

\* the by-date query resolves (first load, refetch, invalidation)
LoadClosure ==
  /\ existingClosure' = ClosureByDate(closures, selectedDate)
  /\ closureLoading' = FALSE
  /\ UNCHANGED <<selectedDate, invoices, invoicesLoading, paymentMethods,
                 paymentMethodsLoading, employees, employeesLoading, failed>>
  /\ UNCHANGED <<formVars, memoVars, storeVars>>
  /\ UNCHANGED <<apiVars, hostVars>>

\* onClick of "Abrir/Cerrar Formulario"
ToggleCashForm ==
  /\ FormOffered
  /\ showCashForm' = ~showCashForm
  /\ UNCHANGED <<openingCash, countedCash, notes>>
  /\ UNCHANGED <<queryVars, memoVars, storeVars>>
  /\ UNCHANGED <<apiVars, hostVars>>

\* onClick of "Cancelar"
CancelCashForm ==
  /\ FormShown
  /\ showCashForm' = FALSE
  /\ UNCHANGED <<openingCash, countedCash, notes>>
  /\ UNCHANGED <<queryVars, memoVars, storeVars>>
  /\ UNCHANGED <<apiVars, hostVars>>

\* onClick of "Realizar Conteo"
OpenCashForm ==
  /\ FormOffered
  /\ ~showCashForm
  /\ showCashForm' = TRUE
  /\ UNCHANGED <<openingCash, countedCash, notes>>
  /\ UNCHANGED <<queryVars, memoVars, storeVars>>
  /\ UNCHANGED <<apiVars, hostVars>>

SetOpeningCash(inputs) ==
  /\ FormShown
  /\ \E s \in inputs : openingCash' = s
  /\ UNCHANGED <<countedCash, notes, showCashForm, dailySummary>>
  /\ UNCHANGED <<queryVars, storeVars>>
  /\ systemCash' = SystemCashOf(openingCash', dailySummary.paymentSummary,
                                paymentMethods)
  /\ variance' = VarianceOf(countedCash, systemCash')
  /\ UNCHANGED <<apiVars, hostVars>>

\* a counted-cash change whose value leaks into the system cash
SetCountedCashIntoSystem(inputs) ==
  /\ FormShown
  /\ \E s \in inputs : countedCash' = s
  /\ UNCHANGED <<openingCash, notes, showCashForm, dailySummary>>
  /\ UNCHANGED <<queryVars, storeVars>>
  /\ systemCash' = SystemCashOf(countedCash', dailySummary.paymentSummary,
                                paymentMethods)
  /\ variance' = VarianceOf(countedCash', systemCash')
  /\ UNCHANGED <<apiVars, hostVars>>

\* onChange of the counted-cash input
SetCountedCash(inputs) ==
  /\ FormShown
  /\ \E s \in inputs : countedCash' = s
  /\ UNCHANGED <<openingCash, notes, showCashForm, dailySummary, systemCash>>
  /\ UNCHANGED <<queryVars, storeVars>>
  /\ variance' = VarianceOf(countedCash', systemCash)
  /\ UNCHANGED <<apiVars, hostVars>>

SetNotes(inputs) ==
  /\ FormShown
  /\ \E s \in inputs : notes' = s
  /\ UNCHANGED <<openingCash, countedCash, showCashForm>>
  /\ UNCHANGED <<queryVars, memoVars, storeVars>>
  /\ UNCHANGED <<apiVars, hostVars>>

\* a validation that only looks for a missing amount
CountedCashMissingOnly(counted) == counted = <<>>

\* !countedCash || parseFloat(countedCash) < 0
CountedCashInvalid(counted) ==
  counted = <<>> \/ FLess(parseFloat(counted), FZero)

\* the body handed to createCashClosureMutation.mutate
ClosurePayload(date, opening, counted, note) ==
  [closingDate |-> date,
   openingCash |-> OrZero(parseFloat(opening)),
   countedCash |-> parseFloat(counted),
   notes       |-> note]

\* onClick of "Crear Cierre de Caja" (disabled while the mutation is pending)
HandleCreateCashClosure ==
  /\ FormShown
  /\ ~isPending
  /\ IF CountedCashInvalid(countedCash)
     THEN /\ toast' = "validation"
          /\ UNCHANGED <<isPending, posts, reply, closures, invoiceStore>>
     ELSE /\ posts' = posts \cup
               {[client |-> "self",
                 body   |-> ClosurePayload(selectedDate, openingCash,
                                           countedCash, notes)]}
          /\ isPending' = TRUE
          /\ UNCHANGED <<toast, reply, closures, invoiceStore>>
  /\ UNCHANGED <<queryVars, formVars, memoVars>>
  /\ UNCHANGED <<apiVars, hostVars>>

\* the same button pressed in another session of the application, whose own
\* by-date query may be stale
OtherClientCreate ==
  /\ \E d \in Dates, c \in OtherCountedInputs :
       /\ ~CountedCashInvalid(c)
       /\ posts' = posts \cup
            {[client |-> "other", body |-> ClosurePayload(d, <<"0">>, c, "")]}
  /\ UNCHANGED <<isPending, toast, reply, closures, invoiceStore>>
  /\ UNCHANGED <<queryVars, formVars, memoVars>>
  /\ UNCHANGED <<apiVars, hostVars>>

\* whether the store holds a row of that closing date
HasClosure(rows, date) == \E i \in 1..Len(rows) : rows[i].closingDate = date

\* a store that appends without looking for a row of the date
StoreCreateUnchecked(rows, body) ==
  [rows |-> Append(rows, body), answer |-> "created"]

\* POST /api/cash-closures at the server: one atomic write, refused with a
\* DuplicateClosureError when the closing date has a row
StoreCreate(rows, body) ==
  IF HasClosure(rows, body.closingDate)
  THEN [rows |-> rows, answer |-> "duplicate"]
  ELSE [rows |-> Append(rows, body), answer |-> "created"]

ServerCreateCashClosure ==
  /\ \E p \in posts :
       LET out == StoreCreate(closures, p.body) IN
       /\ posts' = posts \ {p}
       /\ closures' = out.rows
       /\ reply' = IF p.client = "self" THEN out.answer ELSE reply
  /\ UNCHANGED <<isPending, toast, invoiceStore>>
  /\ UNCHANGED <<queryVars, formVars, memoVars>>
  /\ UNCHANGED <<apiVars, hostVars>>

\* onSuccess of createCashClosureMutation
MutationSuccess ==
  /\ reply = "created"
  /\ reply' = "none"
  /\ isPending' = FALSE
  /\ toast' = "created"
  /\ showCashForm' = FALSE
  /\ countedCash' = <<"0">>
  /\ notes' = ""
  /\ variance' = VarianceOf(countedCash', systemCash)
  /\ UNCHANGED <<openingCash, dailySummary, systemCash, posts, closures,
                 invoiceStore>>
  /\ UNCHANGED queryVars
  /\ UNCHANGED <<apiVars, hostVars>>

\* onError of createCashClosureMutation
MutationError ==
  /\ reply = "duplicate"
  /\ reply' = "none"
  /\ isPending' = FALSE
  /\ toast' = "error"
  /\ UNCHANGED <<posts, closures, invoiceStore>>
  /\ UNCHANGED <<queryVars, formVars, memoVars>>
  /\ UNCHANGED <<apiVars, hostVars>>

----------------------------------------------------------------------------
(* The serverless API: api/health.js, api/auth/register.js, the user-login  *)
(* and validate handlers, api/index.js and the catch-all handler            *)

\* req.headers.origin of a request that carries none
NoOrigin == "<undefined>"

ProductionOrigins ==
  { "https://billtracky.com", "https://www.billtracky.com",
    "https://billtracky.vercel.app", "https://billtracky-app.vercel.app" }

LocalOrigins ==
  { "http://localhost:3000", "http://localhost:5000", "http://localhost:5173" }

\* const allowedOrigins = [...] of each handler
AllowedOrigins(handler) ==
  IF handler = "index" THEN ProductionOrigins
  ELSE ProductionOrigins \cup LocalOrigins

\* res.setHeader('Access-Control-Allow-Methods', ...)
AllowMethods(handler) ==
  CASE handler = "health" -> "GET, OPTIONS"
    [] handler \in {"register", "user-login", "validate"} -> "POST, OPTIONS"
    [] OTHER -> "GET, POST, PUT, DELETE, OPTIONS"

\* the CORS headers every handler sets first
CorsHeaders(handler, origin, nodeEnv) ==
  (IF origin \in AllowedOrigins(handler) \/ nodeEnv = "development"
   THEN {<<"Access-Control-Allow-Origin",
           IF origin = NoOrigin THEN "*" ELSE origin>>}
   ELSE {})
  \cup {<<"Access-Control-Allow-Methods", AllowMethods(handler)>>,
        <<"Access-Control-Allow-Headers", "Content-Type, Authorization, Accept">>,
        <<"Access-Control-Allow-Credentials", "true">>}

SecurityHeaders ==
  { <<"X-Content-Type-Options", "nosniff">>,
    <<"X-Frame-Options", "DENY">>,
    <<"X-XSS-Protection", "1; mode=block">>,
    <<"Referrer-Policy", "strict-origin-when-cross-origin">> }

\* the headers a handler has set when it sends its response: the CORS
\* headers, and in api/index.js and the catch-all, past the preflight return,
\* the security headers
HeadersOf(handler, req) ==
  CorsHeaders(handler, req.origin, req.nodeEnv)
    \cup (IF handler \in {"index", "catchall"} /\ req.method # "OPTIONS"
          THEN SecurityHeaders ELSE {})

\* a session token and an expiry are <<>> when the response carries none
Respond(handler, req, status, token, expiresAt, user) ==
  [handler |-> handler, req |-> req, status |-> status,
   headers |-> HeadersOf(handler, req), token |-> token,
   expiresAt |-> expiresAt, user |-> user]

Plain(handler, req, status) == Respond(handler, req, status, <<>>, <<>>, <<>>)

Methods == {"GET", "POST", "OPTIONS"}
Origins == {"https://billtracky.com", "https://billtracky-app.vercel.app",
            "http://localhost:5173", "https://evil.example", NoOrigin}
NodeEnvs == {"production", "development"}

\* requests with no body that matters
BareRequests ==
  { [method |-> m, origin |-> o, nodeEnv |-> e, url |-> u] :
      m \in Methods, o \in Origins, e \in NodeEnvs,
      u \in {"/api/health", "/api/test", "/api/other"} }

\* api/health.js: the health check
Health ==
  /\ \E req \in BareRequests :
       response' = Plain("health", req, 200)
  /\ UNCHANGED <<organizations, users, userSessions, registrations, now>>
  /\ UNCHANGED <<uiVars, hostVars>>

\* api/index.js: preflight, health, test, 404
Index ==
  /\ \E req \in BareRequests :
       response' = Plain("index", req,
                         IF req.method = "OPTIONS" THEN 200
                         ELSE IF req.url \in {"/api/health", "/health", "/api/test"}
                         THEN 200
                         ELSE 404)
  /\ UNCHANGED <<organizations, users, userSessions, registrations, now>>
  /\ UNCHANGED <<uiVars, hostVars>>

\* the catch-all handler on the routes that touch no table
CatchAll ==
  /\ \E req \in BareRequests :
       response' = Plain("catchall", req,
                         IF req.method = "OPTIONS" THEN 200
                         ELSE IF req.url \in {"/api/health", "/health", "/api/test"}
                         THEN 200
                         ELSE 404)
  /\ UNCHANGED <<organizations, users, userSessions, registrations, now>>
  /\ UNCHANGED <<uiVars, hostVars>>

\* validateRegistration: names of 2 characters, an email that matches
\* /^[^\s@]+@[^\s@]+\.[^\s@]+$/, a password of 8 characters
MinNameLen == 2
MinPasswordLen == 8
MinPhoneLen == 10

ValidEmail(email) ==
  LET n   == Len(email)
      ats == {i \in 1..n : email[i] = "@"}
  IN  /\ \A i \in 1..n : email[i] # " "
      /\ Cardinality(ats) = 1
      /\ LET at == CHOOSE i \in ats : TRUE
         IN  /\ at > 1
             /\ \E d \in (at + 2)..(n - 1) : email[d] = "."

validateRegistration(data) ==
  /\ Len(data.firstName) >= MinNameLen
  /\ Len(data.lastName) >= MinNameLen
  /\ ValidEmail(data.email)
  /\ Len(data.password) >= MinPasswordLen

\* validateOrganization: a name of 2 characters, a phone of 10
validateOrganization(data) ==
  /\ Len(data.name) >= MinNameLen
  /\ Len(data.phone) >= MinPhoneLen

\* bcrypt.hash and bcrypt.compare
Hash(password) == <<"bcrypt", password>>
Compare(password, hashed) == hashed = Hash(password)

\* the first of the rows of a table at the matching positions, as <<row>>,
\* or <<>> when none matches
SelectFirst(rows, matching) ==
  IF matching = {} THEN <<>>
  ELSE <<rows[CHOOSE i \in matching : \A j \in matching : i <= j]>>

UserByEmail(email) ==
  SelectFirst(users, {i \in 1..Len(users) : users[i].email = email})

UserById(id) ==
  SelectFirst(users, {i \in 1..Len(users) : users[i].id = id})

OrgBySubdomain(subdomain) ==
  SelectFirst(organizations,
              {i \in 1..Len(organizations) :
                 organizations[i].subdomain = subdomain})

SessionByToken(token) ==
  SelectFirst(userSessions,
              {i \in 1..Len(userSessions) : <<userSessions[i].token>> = token})

\* the organization row the register handler inserts
OrganizationRow(id, data) ==
  [id |-> id, name |-> data.name, phone |-> data.phone,
   subdomain |-> data.subdomain, subscriptionStatus |-> "active",
   isTrialActive |-> TRUE]

\* a user row stored inactive
InactiveUserRow(id, data, organizationId) ==
  [id |-> id, firstName |-> data.firstName, lastName |-> data.lastName,
   email |-> data.email, password |-> Hash(data.password),
   organizationId |-> organizationId, role |-> "owner",
   isEmailVerified |-> FALSE, isActive |-> FALSE,
   emailVerificationToken |-> <<>>, lastLoginAt |-> <<>>]

\* the user row the register handler inserts; emailVerificationToken is null,
\* and so is lastLoginAt until the first login
UserRow(id, data, organizationId) ==
  [id |-> id, firstName |-> data.firstName, lastName |-> data.lastName,
   email |-> data.email, password |-> Hash(data.password),
   organizationId |-> organizationId, role |-> "owner",
   isEmailVerified |-> TRUE, isActive |-> TRUE,
   emailVerificationToken |-> <<>>, lastLoginAt |-> <<>>]

\* the id of a new user row: one no row of the database holds or refers to
NewUserId ==
  LET ids == {users[i].id : i \in 1..Len(users)}
               \cup {userSessions[i].userId : i \in 1..Len(userSessions)}
  IN  IF ids = {} THEN 1
      ELSE 1 + (CHOOSE n \in ids : \A m \in ids : m <= n)

\* const { password, emailVerificationToken, ...safeUser } = user
SafeUser(user) ==
  [k \in DOMAIN user \ {"password", "emailVerificationToken"} |-> user[k]]

\* update(users).set({ lastLoginAt: new Date(), ... }).where(eq(users.id, id))
SetLastLogin(rows, id, time) ==
  [i \in 1..Len(rows) |->
     IF rows[i].id = id THEN [rows[i] EXCEPT !.lastLoginAt = <<time>>]
     ELSE rows[i]]

\* expiresAt.setDate(expiresAt.getDate() + 7)
SessionDays == 7

\* an expiry test that still accepts the token at expiresAt
ExpiredAfter(session, time) == session.expiresAt < time

\* session.expiresAt <= new Date()
Expired(session, time) == session.expiresAt <= time

\* bounds of the API model
MaxInFlight == 2
MaxOrganizations == 2
MaxSessions == 2
MaxTime == 8

\* request bodies
AnaEmail   == <<"a", "@", "b", ".", "d", "o">>
LuisEmail  == <<"l", "@", "b", ".", "d", "o">>
NoDotEmail == <<"a", "@", "b">>
Secret     == <<"s", "e", "c", "r", "e", "t", "1", "2">>
Other      == <<"o", "t", "h", "e", "r", "9", "8", "7">>
Short      == <<"a", "b", "c">>
Phone      == <<"8", "0", "9", "5", "5", "5", "0", "1", "0", "1">>

OrgData(name, subdomain) == [name |-> name, phone |-> Phone, subdomain |-> subdomain]

Lava    == OrgData(<<"L", "a", "v", "a">>, <<"l", "a", "v">>)
Plancha == OrgData(<<"P", "l", "a", "n">>, <<>>)
BadOrg  == OrgData(<<"L">>, <<>>)

RegisterBody(email, password, organizationData) ==
  [firstName |-> <<"A", "n", "a">>, lastName |-> <<"P", "a", "z">>,
   email |-> email, password |-> password,
   organizationData |-> organizationData]

LoginBody(email, password) == [email |-> email, password |-> password]

TokenBody(token) == [token |-> token]

\* POST requests from the production site
Post(body) ==
  [method |-> "POST", origin |-> "https://billtracky.com",
   nodeEnv |-> "production", body |-> body]

\* requests of every method, origin and environment with one body
AnyRequests(body) ==
  { [method |-> m, origin |-> o, nodeEnv |-> e, body |-> body] :
      m \in Methods, o \in Origins, e \in NodeEnvs }

\* the requests of the header checks: a registration that fails validation,
\* a login of an unknown user, a validation of an unknown token
HeaderRegisterRequests == AnyRequests(RegisterBody(NoDotEmail, Secret, <<>>))
HeaderLoginRequests == AnyRequests(LoginBody(AnaEmail, Secret))
HeaderValidateRequests == AnyRequests(TokenBody(<<1>>))

RegisterRequests ==
  { Post(RegisterBody(AnaEmail, Secret, <<>>)),
    Post(RegisterBody(AnaEmail, Secret, <<Lava>>)),
    Post(RegisterBody(LuisEmail, Other, <<Plancha>>)),
    Post(RegisterBody(AnaEmail, Secret, <<BadOrg>>)),
    Post(RegisterBody(NoDotEmail, Short, <<>>)) }

LoginRequests ==
  { Post(LoginBody(AnaEmail, Secret)),
    Post(LoginBody(AnaEmail, Other)),
    Post(LoginBody(LuisEmail, Other)),
    Post(LoginBody(<<>>, Secret)) }

SessionRegisterRequests == { Post(RegisterBody(AnaEmail, Secret, <<>>)) }

SessionLoginRequests == { Post(LoginBody(AnaEmail, Secret)) }

ValidateRequests ==
  { Post(TokenBody(<<>>)), Post(TokenBody(<<1>>)), Post(TokenBody(<<2>>)),
    Post(TokenBody(<<MaxSessions + 1>>)) }

\* the status a handler answers with before it looks at the body: 200 to a
\* preflight; to a method other than POST, 405 in the handler's own file and
\* 404 in the catch-all, whose routes ask for POST; 0 when it goes on
EarlyStatus(handler, req) ==
  IF req.method = "OPTIONS" THEN 200
  ELSE IF req.method # "POST" THEN (IF handler = "catchall" THEN 404 ELSE 405)
  ELSE 0

\* registrations under way that carry organization data
WithOrganization(regs) == {r \in regs : r.req.body.organizationData # <<>>}

\* POST /api/auth/register up to the first await that matters: validation,
\* the look-up of the email, the validation of the organization
RegisterReceive(handlers, reqs) ==
  /\ \E handler \in handlers, req \in reqs, dbOk \in BOOLEAN :
       LET body == req.body
           org  == body.organizationData
           free == {n \in 1..MaxInFlight : \A r \in registrations : r.rid # n}
           rid  == CHOOSE n \in free : \A m \in free : n <= m
       IN
       /\ free # {}
       /\ Len(organizations) + Cardinality(WithOrganization(registrations))
            < MaxOrganizations
       /\ IF EarlyStatus(handler, req) # 0
          THEN /\ response' = Plain(handler, req, EarlyStatus(handler, req))
               /\ UNCHANGED registrations
          ELSE IF ~validateRegistration(body)
          THEN /\ response' = Plain(handler, req, 400)
               /\ UNCHANGED registrations
          ELSE IF ~dbOk
          THEN /\ response' = Plain(handler, req, 500)
               /\ UNCHANGED registrations
          ELSE IF UserByEmail(body.email) # <<>>
          THEN /\ response' = Plain(handler, req, 400)
               /\ UNCHANGED registrations
          ELSE IF org # <<>> /\ ~validateOrganization(org[1])
          THEN /\ response' = Plain(handler, req, 400)
               /\ UNCHANGED registrations
          ELSE /\ registrations' = registrations \cup
                    {[rid |-> rid, handler |-> handler, req |-> req,
                      organizationId |-> <<>>,
                      pc |-> IF org = <<>> THEN "insertUser"
                             ELSE IF org[1].subdomain # <<>> THEN "subdomain"
                             ELSE "insertOrganization"]}
               /\ UNCHANGED response
  /\ UNCHANGED <<organizations, users, userSessions, now>>
  /\ UNCHANGED <<uiVars, hostVars>>

\* the look-up of the subdomain
RegisterSubdomain ==
  /\ \E r \in registrations, dbOk \in BOOLEAN :
       /\ r.pc = "subdomain"
       /\ IF ~dbOk
          THEN /\ response' = Plain(r.handler, r.req, 500)
               /\ registrations' = registrations \ {r}
          ELSE IF OrgBySubdomain(r.req.body.organizationData[1].subdomain) # <<>>
          THEN /\ response' = Plain(r.handler, r.req, 400)
               /\ registrations' = registrations \ {r}
          ELSE /\ registrations' = (registrations \ {r})
                    \cup {[r EXCEPT !.pc = "insertOrganization"]}
               /\ UNCHANGED response
  /\ UNCHANGED <<organizations, users, userSessions, now>>
  /\ UNCHANGED <<uiVars, hostVars>>

\* database.insert(organizations): the row is stored, or the call throws
RegisterInsertOrganization ==
  /\ \E r \in registrations, dbOk \in BOOLEAN :
       /\ r.pc = "insertOrganization"
       /\ IF ~dbOk
          THEN /\ response' = Plain(r.handler, r.req, 500)
               /\ registrations' = registrations \ {r}
               /\ UNCHANGED organizations
          ELSE LET id == Len(organizations) + 1 IN
               /\ organizations' = Append(organizations,
                    OrganizationRow(id, r.req.body.organizationData[1]))
               /\ registrations' = (registrations \ {r})
                    \cup {[r EXCEPT !.pc = "insertUser",
                                    !.organizationId = <<id>>]}
               /\ UNCHANGED response
  /\ UNCHANGED <<users, userSessions, now>>
  /\ UNCHANGED <<uiVars, hostVars>>

\* the users table takes one row per email: the insert of a second one throws
InsertUser(rows, row) ==
  IF \E i \in 1..Len(rows) : rows[i].email = row.email
  THEN [rows |-> rows, thrown |-> TRUE]
  ELSE [rows |-> Append(rows, row), thrown |-> FALSE]

\* database.insert(users), then the 201; a call that throws ends in the 500
\* of the catch block
RegisterInsertUser ==
  /\ \E r \in registrations, dbOk \in BOOLEAN :
       /\ r.pc = "insertUser"
       /\ registrations' = registrations \ {r}
       /\ LET user == UserRow(NewUserId, r.req.body, r.organizationId)
              out  == InsertUser(users, user)
          IN  IF ~dbOk \/ out.thrown
              THEN /\ response' = Plain(r.handler, r.req, 500)
                   /\ UNCHANGED users
              ELSE /\ users' = out.rows
                   /\ response' = Respond(r.handler, r.req, 201, <<>>, <<>>,
                                          <<SafeUser(user)>>)
  /\ UNCHANGED <<organizations, userSessions, now>>
  /\ UNCHANGED <<uiVars, hostVars>>

\* where a database call of the login handler throws: nowhere, at the look-up
\* of the user, or at the update of lastLoginAt, after the session is stored
LoginFaults == {"none", "select", "update"}

\* POST /api/auth/user-login answering one request
UserLoginStep(handler, req, fault) ==
  /\ Len(userSessions) < MaxSessions
  /\ LET body  == req.body
         found == UserByEmail(body.email)
         token == Len(userSessions) + 1
         row   == [userId |-> found[1].id, token |-> token,
                   expiresAt |-> now + SessionDays, createdAt |-> now]
     IN
     IF EarlyStatus(handler, req) # 0
     THEN /\ response' = Plain(handler, req, EarlyStatus(handler, req))
          /\ UNCHANGED <<users, userSessions>>
     ELSE IF body.email = <<>> \/ body.password = <<>>
     THEN /\ response' = Plain(handler, req, 400)
          /\ UNCHANGED <<users, userSessions>>
     ELSE IF fault = "select"
     THEN /\ response' = Plain(handler, req, 500)
          /\ UNCHANGED <<users, userSessions>>
     ELSE IF found = <<>>
     THEN /\ response' = Plain(handler, req, 401)
          /\ UNCHANGED <<users, userSessions>>
     ELSE IF ~found[1].isActive
     THEN /\ response' = Plain(handler, req, 401)
          /\ UNCHANGED <<users, userSessions>>
     ELSE IF ~Compare(body.password, found[1].password)
     THEN /\ response' = Plain(handler, req, 401)
          /\ UNCHANGED <<users, userSessions>>
     ELSE /\ userSessions' = Append(userSessions, row)
          /\ users' = IF fault = "update" THEN users
                      ELSE SetLastLogin(users, found[1].id, now)
          /\ response' =
               IF fault # "none" THEN Plain(handler, req, 500)
               ELSE Respond(handler, req, 200, <<token>>, <<row.expiresAt>>,
                            <<SafeUser(found[1])>>)
  /\ UNCHANGED <<organizations, registrations, now>>
  /\ UNCHANGED <<uiVars, hostVars>>

UserLogin(handlers, reqs) ==
  \E handler \in handlers, req \in reqs, fault \in LoginFaults :
    UserLoginStep(handler, req, fault)

ValidateStepSessionOnly(handler, req, dbOk) ==
  /\ LET token == req.body.token
         found == SessionByToken(token)
     IN
     response' =
       IF EarlyStatus(handler, req) # 0
       THEN Plain(handler, req, EarlyStatus(handler, req))
       ELSE IF token = <<>> THEN Plain(handler, req, 400)
       ELSE IF ~dbOk THEN Plain(handler, req, 500)
       ELSE IF found = <<>> \/ Expired(found[1], now)
       THEN Plain(handler, req, 401)
       ELSE Respond(handler, req, 200, <<>>, <<found[1].expiresAt>>, <<>>)
  /\ UNCHANGED <<organizations, users, userSessions, registrations, now>>
  /\ UNCHANGED <<uiVars, hostVars>>

\* POST /api/auth/validate answering one request
ValidateStep(handler, req, dbOk) ==
  /\ LET token == req.body.token
         found == SessionByToken(token)
         owner == IF found = <<>> THEN <<>> ELSE UserById(found[1].userId)
     IN
     response' =
       IF EarlyStatus(handler, req) # 0
       THEN Plain(handler, req, EarlyStatus(handler, req))
       ELSE IF token = <<>> THEN Plain(handler, req, 400)
       ELSE IF ~dbOk THEN Plain(handler, req, 500)
       ELSE IF found = <<>> \/ Expired(found[1], now)
       THEN Plain(handler, req, 401)
       ELSE IF owner = <<>> \/ ~owner[1].isActive
       THEN Plain(handler, req, 401)
       ELSE Respond(handler, req, 200, <<>>, <<found[1].expiresAt>>,
                    <<SafeUser(owner[1])>>)
  /\ UNCHANGED <<organizations, users, userSessions, registrations, now>>
  /\ UNCHANGED <<uiVars, hostVars>>

Validate(handlers, reqs) ==
  \E handler \in handlers, req \in reqs, dbOk \in BOOLEAN :
    ValidateStep(handler, req, dbOk)

\* an account is switched off: isActive of a users row is set to false
DeactivateUser ==
  /\ \E i \in 1..Len(users) :
       /\ users[i].isActive
       /\ users' = [users EXCEPT ![i].isActive = FALSE]
  /\ UNCHANGED <<organizations, userSessions, registrations, now, response>>
  /\ UNCHANGED <<uiVars, hostVars>>

\* an account is removed: its users row is deleted, its sessions stay
DeleteUser ==
  /\ \E i \in 1..Len(users) :
       users' = SubSeq(users, 1, i - 1) \o SubSeq(users, i + 1, Len(users))
  /\ UNCHANGED <<organizations, userSessions, registrations, now, response>>
  /\ UNCHANGED <<uiVars, hostVars>>

\* a day passes
Tick ==
  /\ now < MaxTime
  /\ now' = now + 1
  /\ UNCHANGED <<organizations, users, userSessions, registrations, response>>
  /\ UNCHANGED <<uiVars, hostVars>>

----------------------------------------------------------------------------
(* The Express server: server/config.ts and server/email-service.ts         *)

\* process.env of the server: NODE_ENV and FROM_EMAIL, each set or not; the
\* required DATABASE_URL and RESEND_API_KEY are set (config.ts throws if not)
ProcessEnvs ==
  [NODE_ENV : {<<>>, <<"production">>, <<"development">>, <<"test">>},
   FROM_EMAIL : {<<>>, <<"noreply@billtracky.com">>, <<"onboarding@resend.dev">>}]

\* validateEnvironment of server/config.ts: the defaults of what is not set
validateEnvironment(env) ==
  [NODE_ENV |-> IF env.NODE_ENV = <<>> THEN "development" ELSE env.NODE_ENV[1],
   FROM_EMAIL |-> IF env.FROM_EMAIL = <<>> THEN "noreply@billtracky.com"
                  ELSE env.FROM_EMAIL[1]]

\* export const config = validateEnvironment(), when the module is loaded
LoadConfig ==
  /\ config = <<>>
  /\ \E env \in ProcessEnvs : config' = <<validateEnvironment(env)>>
  /\ UNCHANGED <<outbox, serverVars, scriptVars>>
  /\ UNCHANGED <<uiVars, apiVars>>

\* private static readonly DEV_MODE, DEV_EMAIL
DEV_MODE == config[1].NODE_ENV # "production"
DEV_EMAIL == "robinsonsilverio1844@gmail.com"

\* the addresses the application sends to
Recipients == {"ana@lavanderia.do", "luis@lavanderia.do"}

\* what resend.emails.send does: it delivers, returns an error with a status
\* code (403: domain not verified or recipient not allowed), or throws
ResendOutcomes == {"sent", "403", "401", "throw"}

MaxEmails == 2

IntendedTo(to) == to

\* const actualTo = this.DEV_MODE ? this.DEV_EMAIL : to
ActualTo(to) == IF DEV_MODE THEN DEV_EMAIL ELSE to

\* the body the two send methods share: one call of resend.emails.send from
\* FROM_EMAIL to actualTo, and true returned when it gave no error
Send(kind, to, outcome) ==
  /\ config # <<>>
  /\ Len(outbox) < MaxEmails
  /\ outbox' = Append(outbox,
       [kind |-> kind, originalTo |-> to,
        attempts |-> <<[from |-> config[1].FROM_EMAIL, to |-> ActualTo(to),
                        outcome |-> outcome]>>,
        result |-> (outcome = "sent")])
  /\ UNCHANGED <<config, serverVars, scriptVars>>
  /\ UNCHANGED <<uiVars, apiVars>>

sendUserActivationEmail ==
  \E to \in Recipients, outcome \in ResendOutcomes :
    Send("activation", to, outcome)

sendPasswordResetEmail ==
  \E to \in Recipients, outcome \in ResendOutcomes :
    Send("reset", to, outcome)

\* EmailService.testConnection, which the server calls when it starts outside
\* production: an activation email for DEV_EMAIL
testConnection ==
  /\ config # <<>>
  /\ DEV_MODE
  /\ \E outcome \in ResendOutcomes : Send("activation", DEV_EMAIL, outcome)

----------------------------------------------------------------------------
(* The life of the server process: server/index.ts and its copy with the    *)
(* production error handlers, unnamed/part_000.  A callback given to        *)
(* server.close is <<>> when it only logs and <<code>> when it ends with    *)
(* process.exit(code).                                                       *)

Builds == {"server/index.ts", "unnamed/part_000"}

MaxConnections == 1
MaxCloseCalls == 2

\* server.listen(config.PORT, callback), and the process.on handlers that the
\* same turn of the event loop registers
Listen ==
  /\ config # <<>>
  /\ server = "created"
  /\ server' = "bound"
  /\ \E b \in Builds : build' = b
  /\ UNCHANGED <<syncWorker, connections, closeCallbacks, forceExit, exitCode>>
  /\ UNCHANGED <<mailVars, scriptVars>>
  /\ UNCHANGED <<uiVars, apiVars>>

\* the callback of server.listen, run on 'listening', which the server emits
\* on the next tick, before any signal is delivered: syncWorker.start()
ListeningCallback ==
  /\ exitCode = <<>>
  /\ server = "bound"
  /\ server' = "listening"
  /\ syncWorker' = "running"
  /\ UNCHANGED <<build, connections, closeCallbacks, forceExit, exitCode>>
  /\ UNCHANGED <<mailVars, scriptVars>>
  /\ UNCHANGED <<uiVars, apiVars>>

\* a client connects to the listening server; a connection ends
Connect ==
  /\ exitCode = <<>>
  /\ server = "listening"
  /\ connections < MaxConnections
  /\ connections' = connections + 1
  /\ UNCHANGED <<build, server, syncWorker, closeCallbacks, forceExit, exitCode>>
  /\ UNCHANGED <<mailVars, scriptVars>>
  /\ UNCHANGED <<uiVars, apiVars>>

Disconnect ==
  /\ exitCode = <<>>
  /\ connections > 0
  /\ connections' = connections - 1
  /\ UNCHANGED <<build, server, syncWorker, closeCallbacks, forceExit, exitCode>>
  /\ UNCHANGED <<mailVars, scriptVars>>
  /\ UNCHANGED <<uiVars, apiVars>>

\* server.close(callback): the server stops listening and the callback waits
\* for 'close'
ServerClose(callback) ==
  /\ server' = IF server = "listening" THEN "closing" ELSE server
  /\ closeCallbacks' = Append(closeCallbacks, callback)

\* a handler that closes the server and leaves the worker as it is
CloseOnly(callback) ==
  /\ syncWorker' = syncWorker
  /\ ServerClose(callback)

\* syncWorker.stop(); server.close(callback)
Shutdown(callback) ==
  /\ syncWorker' = "stopped"
  /\ ServerClose(callback)

\* the SIGTERM and SIGINT handlers; only the copy's callback ends the process
Signal(sig) ==
  /\ exitCode = <<>>
  /\ server \in {"listening", "closing", "closed"}
  /\ Len(closeCallbacks) < MaxCloseCalls
  /\ Shutdown(IF build = "unnamed/part_000" THEN <<0>> ELSE <<>>)
  /\ UNCHANGED <<build, connections, forceExit, exitCode>>
  /\ UNCHANGED <<mailVars, scriptVars>>
  /\ UNCHANGED <<uiVars, apiVars>>

\* 'close' of the server, once it listens no more and no connection is open:
\* the waiting callbacks run in their order, up to the first that exits
EmitClose ==
  /\ exitCode = <<>>
  /\ connections = 0
  /\ \/ server = "closing"
     \/ server = "closed" /\ closeCallbacks # <<>>
  /\ server' = "closed"
  /\ closeCallbacks' = <<>>
  /\ LET exits == SelectSeq(closeCallbacks, LAMBDA c : c # <<>>)
     IN  exitCode' = IF exits = <<>> THEN <<>> ELSE exits[1]
  /\ UNCHANGED <<build, syncWorker, connections, forceExit>>
  /\ UNCHANGED <<mailVars, scriptVars>>
  /\ UNCHANGED <<uiVars, apiVars>>

\* the uncaughtException and unhandledRejection handlers of the copy: in
\* production they shut down with exit code 1 and arm the 10 s timer, else
\* they log.  server/index.ts has no such handler and the process ends.
UncaughtException(event) ==
  /\ exitCode = <<>>
  /\ server \in {"listening", "closing", "closed"}
  /\ IF build = "unnamed/part_000"
     THEN IF config[1].NODE_ENV = "production"
          THEN /\ Len(closeCallbacks) < MaxCloseCalls
               /\ Shutdown(<<1>>)
               /\ forceExit' = TRUE
               /\ UNCHANGED <<build, connections, exitCode>>
          ELSE UNCHANGED serverVars
     ELSE /\ exitCode' = <<1>>
          /\ UNCHANGED <<build, server, syncWorker, connections,
                         closeCallbacks, forceExit>>
  /\ UNCHANGED <<mailVars, scriptVars>>
  /\ UNCHANGED <<uiVars, apiVars>>

\* setTimeout(() => process.exit(1), 10000)
ForceExit ==
  /\ exitCode = <<>>
  /\ forceExit
  /\ exitCode' = <<1>>
  /\ UNCHANGED <<build, server, syncWorker, connections, closeCallbacks,
                 forceExit>>
  /\ UNCHANGED <<mailVars, scriptVars>>
  /\ UNCHANGED <<uiVars, apiVars>>

----------------------------------------------------------------------------
(* The production validation script: scripts/validate-production.js.  A     *)
(* variable of process.env is <<>> when it is not set (or empty) and        *)
(* <<value>> when it is; the texts the script looks into are sequences of   *)
(* characters.                                                               *)

ShortWeakSecret == <<"M", "y", "S", "e", "c", "r", "e", "t">>
LongStrongSecret ==
  <<"k", "7", "G", "q", "2", "Z", "r", "9", "L", "w", "4", "X",
    "b", "8", "N", "v", "3", "H", "d", "6", "J", "m", "1", "P",
    "c", "5", "Y", "u", "0", "E", "f", "2">>
LongWeakSecret ==
  <<"k", "7", "G", "q", "2", "Z", "r", "9", "L", "w", "4", "T",
    "e", "s", "t", "N", "v", "3", "H", "d", "6", "J", "m", "1",
    "P", "c", "5", "Y", "u", "0", "E", "f">>

ScriptEnvs ==
  [NODE_ENV : {<<>>, <<"production">>, <<"development">>},
   DATABASE_URL : {<<>>, <<"postgres://db">>},
   RESEND_API_KEY : {<<>>, <<"re_key">>},
   FROM_EMAIL : {<<>>, <<AnaEmail>>, <<NoDotEmail>>},
   APP_URL : {<<>>, <<"https://billtracky.com">>, <<"http://billtracky.com">>,
              <<"billtracky">>},
   SESSION_SECRET : {<<>>, <<ShortWeakSecret>>, <<LongStrongSecret>>},
   JWT_SECRET : {<<>>, <<LongWeakSecret>>, <<LongStrongSecret>>},
   LOG_LEVEL : {<<>>, <<"info">>}]

\* the major versions of Node.js the script is run with
NodeVersions == {16, 20}

\* what the connection test, and the request to api.resend.com/domains with
\* the look-up of the sender's domain, come to
DatabaseOutcomes == {"connected", "failed"}
DomainOutcomes == {"verified", "pending", "missing", "rejected", "throw"}

MinNodeVersion == 18
MinSecretLength == 32

requiredEnvVars ==
  {"NODE_ENV", "DATABASE_URL", "RESEND_API_KEY", "FROM_EMAIL", "APP_URL"}
recommendedEnvVars == {"SESSION_SECRET", "JWT_SECRET", "LOG_LEVEL"}

\* new URL(text).protocol, <<>> when the constructor throws
URLProtocol(text) ==
  CASE text = "https://billtracky.com" -> <<"https:">>
    [] text = "http://billtracky.com"  -> <<"http:">>
    [] OTHER                           -> <<>>

\* text.split('@')[1], <<>> when there is none (or it is empty)
AfterAt(text) ==
  LET ats == {i \in 1..Len(text) : text[i] = "@"}
  IN  IF ats = {} THEN <<>>
      ELSE LET first == CHOOSE i \in ats : \A j \in ats : i <= j
               later == {j \in ats : j > first}
               last  == IF later = {} THEN Len(text)
                        ELSE (CHOOSE j \in later : \A k \in later : j <= k) - 1
           IN  SubSeq(text, first + 1, last)

UpperCase ==
  <<"A", "B", "C", "D", "E", "F", "G", "H", "I", "J", "K", "L",
    "M", "N", "O", "P", "Q", "R", "S", "T", "U", "V", "W", "X",
    "Y", "Z">>
LowerCase ==
  <<"a", "b", "c", "d", "e", "f", "g", "h", "i", "j", "k", "l",
    "m", "n", "o", "p", "q", "r", "s", "t", "u", "v", "w", "x",
    "y", "z">>

\* String.prototype.toLowerCase and String.prototype.includes
toLowerCase(text) ==
  [i \in 1..Len(text) |->
     IF \E k \in 1..Len(UpperCase) : UpperCase[k] = text[i]
     THEN LowerCase[CHOOSE k \in 1..Len(UpperCase) : UpperCase[k] = text[i]]
     ELSE text[i]]

includes(text, pattern) ==
  \E i \in 0..(Len(text) - Len(pattern)) :
    SubSeq(text, i + 1, i + Len(pattern)) = pattern

dangerousSecrets ==
  { <<"s", "e", "c", "r", "e", "t">>,
    <<"p", "a", "s", "s", "w", "o", "r", "d">>,
    <<"a", "d", "m", "i", "n">>,
    <<"1", "2", "3", "4", "5", "6">>,
    <<"t", "e", "s", "t">> }

\* a secret that is set and holds one of the weak patterns
WeakSecret(value) ==
  /\ value # <<>>
  /\ \E dangerous \in dangerousSecrets :
       includes(toLowerCase(value[1]), dangerous)

\* checkSecurity: what it adds to hasErrors and to hasWarnings
checkSecurity(env) ==
  [errors   |-> WeakSecret(env.SESSION_SECRET) \/ WeakSecret(env.JWT_SECRET),
   warnings |-> \E v \in {"SESSION_SECRET", "JWT_SECRET"} :
                  env[v] # <<>> /\ Len(env[v][1]) < MinSecretLength]

\* the final summary of validateEnvironment: the code it calls process.exit
\* with, <<>> if it returned to its caller
SummaryExit(errors, warnings) ==
  IF errors THEN <<1>> ELSE IF warnings THEN <<0>> ELSE <<0>>

\* the script is loaded and validateEnvironment runs up to the connection
\* test: Node.js version, required variables, NODE_ENV, APP_URL, FROM_EMAIL.
\* The import of createConnection from pg either links or ends the run.
ScriptStart ==
  /\ pc = "start"
  /\ \E env \in ScriptEnvs, major \in NodeVersions, linked \in BOOLEAN :
       /\ scriptEnv' = <<env>>
       /\ IF ~linked
          THEN /\ pc' = "done"
               /\ scriptExit' = <<1>>
               /\ UNCHANGED <<hasErrors, hasWarnings>>
          ELSE /\ pc' = "database"
               /\ scriptExit' = <<>>
               /\ hasErrors' =
                    \/ major < MinNodeVersion
                    \/ \E v \in requiredEnvVars : env[v] = <<>>
                    \/ env.APP_URL # <<>> /\ URLProtocol(env.APP_URL[1]) = <<>>
                    \/ env.FROM_EMAIL # <<>> /\ ~ValidEmail(env.FROM_EMAIL[1])
               /\ hasWarnings' =
                    \/ env.NODE_ENV # <<"production">>
                    \/ /\ env.APP_URL # <<>>
                       /\ URLProtocol(env.APP_URL[1]) \notin {<<>>, <<"https:">>}
  /\ UNCHANGED securityRan
  /\ UNCHANGED <<mailVars, serverVars>>
  /\ UNCHANGED <<uiVars, apiVars>>

\* the database connection test
ScriptDatabase ==
  /\ pc = "database"
  /\ pc' = "resend"
  /\ \E outcome \in DatabaseOutcomes :
       hasErrors' = (hasErrors \/ (scriptEnv[1].DATABASE_URL # <<>>
                                     /\ outcome = "failed"))
  /\ UNCHANGED <<scriptEnv, hasWarnings, securityRan, scriptExit>>
  /\ UNCHANGED <<mailVars, serverVars>>
  /\ UNCHANGED <<uiVars, apiVars>>

\* the test of the email service and of the sender's domain
ScriptResend ==
  /\ pc = "resend"
  /\ pc' = "summary"
  /\ LET env    == scriptEnv[1]
         domain == IF env.FROM_EMAIL = <<>> THEN <<>>
                   ELSE AfterAt(env.FROM_EMAIL[1])
     IN  \E outcome \in DomainOutcomes :
           /\ hasErrors' = (hasErrors \/ (env.RESEND_API_KEY # <<>>
                                            /\ outcome \in {"rejected", "throw"}))
           /\ hasWarnings' = (hasWarnings \/ (/\ env.RESEND_API_KEY # <<>>
                                               /\ domain # <<>>
                                               /\ outcome \in {"pending", "missing"}))
  /\ UNCHANGED <<scriptEnv, securityRan, scriptExit>>
  /\ UNCHANGED <<mailVars, serverVars>>
  /\ UNCHANGED <<uiVars, apiVars>>

\* the recommended variables and the final summary, then what is left of
\* `await validateEnvironment(); checkSecurity();` if the summary returned
ScriptSummary ==
  /\ pc = "summary"
  /\ pc' = "done"
  /\ LET env      == scriptEnv[1]
         warnings == hasWarnings \/ \E v \in recommendedEnvVars : env[v] = <<>>
         code     == SummaryExit(hasErrors, warnings)
         security == checkSecurity(env)
     IN  IF code # <<>>
         THEN /\ scriptExit' = code
              /\ hasWarnings' = warnings
              /\ UNCHANGED <<hasErrors, securityRan>>
         ELSE /\ securityRan' = TRUE
              /\ hasErrors' = (hasErrors \/ security.errors)
              /\ hasWarnings' = (warnings \/ security.warnings)
              /\ scriptExit' = <<0>>
  /\ UNCHANGED scriptEnv
  /\ UNCHANGED <<mailVars, serverVars>>
  /\ UNCHANGED <<uiVars, apiVars>>

----------------------------------------------------------------------------
(* The aggregation alone: the three queries resolve, in any order, with any *)
(* of the bounded inputs, and the summary is recomputed.                    *)

NextSummary ==
  \/ LoadInvoices(SummaryInvoiceLists)
  \/ LoadPaymentMethods(SummaryMethodLists)
  \/ LoadEmployees(SummaryEmployeeLists)

SpecSummary == Init /\ [][NextSummary]_vars

----------------------------------------------------------------------------
(* The counting form: the queries resolve, the operator opens the form and  *)
(* types the opening and the counted cash.                                  *)

NextCash ==
  \/ LoadInvoices(CashInvoiceLists)
  \/ LoadPaymentMethods(CashMethodLists)
  \/ LoadEmployees(CashEmployeeLists)
  \/ LoadClosure
  \/ OpenCashForm
  \/ SetOpeningCash(OpeningInputs)
  \/ SetCountedCash(CountedInputs)

SpecCash == Init /\ [][NextCash]_vars

----------------------------------------------------------------------------
(* Creating a closure: one session, one date; the operator fills the form   *)
(* and presses "Crear Cierre de Caja", the server answers.                  *)

NextCreate ==
  \/ LoadInvoices({<<>>})
  \/ LoadPaymentMethods({<<Cash, Card>>})
  \/ LoadEmployees(CashEmployeeLists)
  \/ LoadClosure
  \/ ToggleCashForm
  \/ CancelCashForm
  \/ OpenCashForm
  \/ SetOpeningCash(ClosureOpeningInputs)
  \/ SetCountedCash(ClosureCountedInputs)
  \/ SetNotes(NotesInputs)
  \/ HandleCreateCashClosure
  \/ ServerCreateCashClosure
  \/ MutationSuccess
  \/ MutationError

SpecCreate == Init /\ [][NextCreate]_vars

----------------------------------------------------------------------------
(* The closure lifecycle: this session and another one create closures for  *)
(* the dates of Dates.                                                      *)

Next ==
  \/ LoadInvoices({<<>>})
  \/ LoadPaymentMethods({<<Cash, Card>>})
  \/ LoadEmployees(CashEmployeeLists)
  \/ LoadClosure
  \/ SetSelectedDate
  \/ ToggleCashForm
  \/ CancelCashForm
  \/ OpenCashForm
  \/ SetCountedCash(LifecycleCountedInputs)
  \/ HandleCreateCashClosure
  \/ OtherClientCreate
  \/ ServerCreateCashClosure
  \/ MutationSuccess
  \/ MutationError

Spec == Init /\ [][Next]_vars

----------------------------------------------------------------------------
(* The loading gate: the three list queries and the by-date query resolve   *)
(* or fail in any order, and the operator opens the form once it is there.  *)

NextLoad ==
  \/ LoadInvoices(CashInvoiceLists)
  \/ LoadPaymentMethods(CashMethodLists)
  \/ LoadEmployees(SummaryEmployeeLists)
  \/ FailInvoices
  \/ FailPaymentMethods
  \/ FailEmployees
  \/ LoadClosure
  \/ OpenCashForm
  \/ CancelCashForm

SpecLoad == Init /\ [][NextLoad]_vars

----------------------------------------------------------------------------
(* The date filter: the store holds dated invoices, the invoices query      *)
(* fetches them and keeps those of the selected date.                       *)

NextDates ==
  \/ StoreInvoices(StoredLists)
  \/ FetchInvoices
  \/ LoadPaymentMethods({<<Cash, Card>>})
  \/ LoadEmployees(CashEmployeeLists)
  \/ LoadClosure
  \/ SetSelectedDate

SpecDates == Init /\ [][NextDates]_vars

----------------------------------------------------------------------------
(* Registration and login: register handlers run step by step, with the     *)
(* database calls that may throw, next to logins.                           *)

NextRegister ==
  \/ RegisterReceive({"register"}, RegisterRequests)
  \/ RegisterSubdomain
  \/ RegisterInsertOrganization
  \/ RegisterInsertUser
  \/ UserLogin({"user-login"}, LoginRequests)

SpecRegister == Init /\ [][NextRegister]_vars

----------------------------------------------------------------------------
(* Sessions: one user registers, logs in and validates tokens as days pass. *)

NextSession ==
  \/ (users = <<>> /\ RegisterReceive({"register"}, SessionRegisterRequests))
  \/ RegisterInsertUser
  \/ UserLogin({"user-login", "catchall"}, SessionLoginRequests)
  \/ Validate({"validate", "catchall"}, ValidateRequests)
  \/ Tick

SpecSession == Init /\ [][NextSession]_vars

----------------------------------------------------------------------------
(* Response headers: every handler answers requests of every method, origin *)
(* and environment.                                                         *)

NextHeaders ==
  \/ Health
  \/ Index
  \/ CatchAll
  \/ RegisterReceive({"register", "catchall"}, HeaderRegisterRequests)
  \/ UserLogin({"user-login", "catchall"}, HeaderLoginRequests)
  \/ Validate({"validate", "catchall"}, HeaderValidateRequests)

SpecHeaders == Init /\ [][NextHeaders]_vars

----------------------------------------------------------------------------
(* Accounts: a user registers and logs in; once the sessions exist days     *)
(* pass and tokens are validated, while the account is switched off or      *)
(* removed.                                                                 *)

NextAccounts ==
  \/ RegisterReceive({"register"}, SessionRegisterRequests)
  \/ RegisterInsertUser
  \/ UserLogin({"user-login"}, SessionLoginRequests)
  \/ Validate({"validate"}, ValidateRequests)
  \/ DeactivateUser
  \/ DeleteUser
  \/ (Len(userSessions) = MaxSessions /\ Tick)

SpecAccounts == Init /\ [][NextAccounts]_vars

----------------------------------------------------------------------------
(* Email: the configuration is loaded, then emails are sent.                *)

NextEmail ==
  \/ LoadConfig
  \/ sendUserActivationEmail
  \/ sendPasswordResetEmail
  \/ testConnection

SpecEmail == Init /\ [][NextEmail]_vars

----------------------------------------------------------------------------
(* The server process from its start to its end.                            *)

NextServer ==
  \/ LoadConfig
  \/ Listen
  \/ ListeningCallback
  \/ Connect
  \/ Disconnect
  \/ \E sig \in {"SIGTERM", "SIGINT"} : Signal(sig)
  \/ EmitClose
  \/ \E event \in {"uncaughtException", "unhandledRejection"} :
       UncaughtException(event)
  \/ ForceExit

SpecServer == Init /\ [][NextServer]_vars

----------------------------------------------------------------------------
(* One run of the production validation script.                             *)

NextScript ==
  \/ ScriptStart
  \/ ScriptDatabase
  \/ ScriptResend
  \/ ScriptSummary

SpecScript == Init /\ [][NextScript]_vars

----------------------------------------------------------------------------
(* Properties                                                               *)

\* the delivered invoices, read off the fields
DeliveredIdx == {i \in 1..Len(invoices) :
                   invoices[i].status = "delivered" /\ invoices[i].paid = TRUE}

\* the pending invoices, read off the fields
PendingIdx == {i \in 1..Len(invoices) :
                 invoices[i].paid = FALSE /\ invoices[i].status # "cancelled"}

AllLoaded == ~(invoicesLoading \/ paymentMethodsLoading \/ employeesLoading)

RECURSIVE SumQuantity(_, _)
SumQuantity(obj, n) ==
  IF n = 0 THEN 0 ELSE SumQuantity(obj, n - 1) + obj[n].val.quantity

RECURSIVE SumSales(_, _)
SumSales(obj, n) ==
  IF n = 0 THEN 0 ELSE SumSales(obj, n - 1) + obj[n].val.sales

\* the totals of the entries added up in the order of the keys
RECURSIVE SumTotals(_, _)
SumTotals(obj, n) ==
  IF n = 0 THEN FZero ELSE FAdd(SumTotals(obj, n - 1), obj[n].val.total)

\* the quantity of the entry of a key, 0 when the summary has no such key
QuantityOf(key) ==
  IF ObjHas(dailySummary.paymentSummary, key)
  THEN ObjGet(dailySummary.paymentSummary, key).quantity
  ELSE 0

\* the indices of the payment methods whose code is "cash"
CashMethodIdx == {i \in 1..Len(paymentMethods) : paymentMethods[i].code = "cash"}

\* C1 -- systemCash is openingCash plus the total of the payment-summary
\* entry of the payment method whose code is "cash", and it is openingCash
\* when no payment method has the code "cash" (stated for an opening cash and
\* a cash total that are numbers).
C1_SystemCashIsOpeningPlusCash ==
  LET opening == parseFloat(openingCash) IN
  ~IsNaN(opening) =>
    IF CashMethodIdx = {} THEN systemCash = opening
    ELSE \E i \in CashMethodIdx :
           LET cash == ObjGet(dailySummary.paymentSummary,
                              paymentMethods[i].name).total
           IN  ~IsNaN(cash) => systemCash = FAdd(opening, cash)

\* C3 -- the quantities of the payment-summary entries add up to the number
\* of delivered invoices (status delivered and paid): each delivered invoice
\* is counted in exactly one entry.
C3_QuantitiesSumToDelivered ==
  SumQuantity(dailySummary.paymentSummary, Len(dailySummary.paymentSummary))
    = Cardinality(DeliveredIdx)

C3_Witness ==
  /\ AllLoaded
  /\ Len(paymentMethods) = 2
  /\ Cardinality(DeliveredIdx) = 3
  /\ QuantityOf(Pendiente) = 1
  /\ QuantityOf("Tarjeta") = 1

\* C4 -- the totals of the payment-summary entries add up to totalRevenue
\* exactly, with no drift between the per-method sums and the overall sum.
C4_TotalsSumToRevenue ==
  SumTotals(dailySummary.paymentSummary, Len(dailySummary.paymentSummary))
    = dailySummary.totalRevenue

\* the key of employeeStats an invoice belongs to, read off the employee list
EmployeeKey(invoice) ==
  IF \E j \in 1..Len(employees) : employees[j].id = invoice.employeeId
  THEN LET j == CHOOSE k \in 1..Len(employees) :
                  /\ employees[k].id = invoice.employeeId
                  /\ \A m \in 1..(k - 1) : employees[m].id # invoice.employeeId
       IN  employees[j].name
  ELSE Desconocido

\* each delivered invoice is counted in the entry of its employee's key, and
\* in no other
AttributedOnce ==
  /\ \A i \in DeliveredIdx : ObjHas(dailySummary.employeeStats, EmployeeKey(invoices[i]))
  /\ \A n \in 1..Len(dailySummary.employeeStats) :
       dailySummary.employeeStats[n].val.sales =
         Cardinality({i \in DeliveredIdx :
                        EmployeeKey(invoices[i]) = dailySummary.employeeStats[n].key})

\* C5 -- every delivered invoice is attributed to exactly one employeeStats
\* entry, that of the employee with its employeeId or "Desconocido"; so the
\* sales add up to the number of delivered invoices and the totals add up to
\* totalRevenue.
C5_EmployeeTotalsSumToRevenue ==
  /\ AttributedOnce
  /\ SumSales(dailySummary.employeeStats, Len(dailySummary.employeeStats))
       = Cardinality(DeliveredIdx)
  /\ SumTotals(dailySummary.employeeStats, Len(dailySummary.employeeStats))
       = dailySummary.totalRevenue

\* C6 -- a delivered invoice whose paymentMethod matches the code of no payment
\* method (a missing code included) adds 1 to the quantity of the "Pendiente"
\* entry and its total to the total of that entry, and changes no other entry.
C6_UnknownMethodGoesToPendiente ==
  LET n    == Len(invoices)
      last == invoices[n]
      before == PaymentSummaryOf(SubSeq(invoices, 1, n - 1), paymentMethods)
      after  == dailySummary.paymentSummary
  IN  ( /\ n > 0
        /\ n \in DeliveredIdx
        /\ \A j \in 1..Len(paymentMethods) :
             paymentMethods[j].code # last.paymentMethod )
      =>
      /\ Len(after) = Len(before)
      /\ \A k \in 1..Len(after) :
           /\ after[k].key = before[k].key
           /\ IF after[k].key = Pendiente
              THEN /\ after[k].val.quantity = before[k].val.quantity + 1
                   /\ after[k].val.total =
                        FAdd(before[k].val.total, parseFloat(last.total))
              ELSE after[k].val = before[k].val

C6_Witness ==
  /\ AllLoaded
  /\ Len(paymentMethods) = 2
  /\ Len(invoices) = 3
  /\ 3 \in DeliveredIdx
  /\ invoices[3].paymentMethod = Null
  /\ QuantityOf(Pendiente) = 2
  /\ QuantityOf("Efectivo") = 1

\* C7 -- variance is countedCash minus systemCash, and it is negative exactly
\* when countedCash is less than systemCash; counted 140.00 against a system
\* cash of 150.00 gives -10.00.
C7_VarianceIsCountedMinusSystem ==
  LET counted == parseFloat(countedCash) IN
  ~IsNaN(counted) =>
    /\ variance = FSub(counted, systemCash)
    /\ (~IsNaN(variance) /\ variance.neg) <=> FLess(counted, systemCash)
    /\ (counted = FInt(140) /\ systemCash = FInt(150))
         => variance = FNeg(FInt(10))

C7_Witness ==
  /\ countedCash = <<"1", "4", "0", ".", "0", "0">>
  /\ openingCash = <<"1", "0", "0", ".", "0", "0">>
  /\ systemCash = FInt(150)
  /\ variance = FNeg(FInt(10))

\* whether an amount string is missing, or negative
Missing(s) == Len(s) = 0
Negative(s) == Len(s) > 0 /\ s[1] = "-"

SelfPosts(ps) == {p \in ps : p.client = "self"}

\* C8 -- a create with a missing or negative countedCash is rejected by
\* validation and no request is issued; a request is sent to the store only
\* with a countedCash that is a number >= 0.
C8_ValidationBeforeRequest ==
  /\ [](\A p \in SelfPosts(posts) :
          /\ ~IsNaN(p.body.countedCash)
          /\ ~p.body.countedCash.neg)
  /\ [][ (Missing(countedCash) \/ Negative(countedCash))
           => SelfPosts(posts') \subseteq SelfPosts(posts) ]_vars
  /\ [][ (HandleCreateCashClosure
            /\ (Missing(countedCash) \/ Negative(countedCash)))
           => /\ toast' = "validation"
              /\ UNCHANGED <<posts, closures, isPending>> ]_vars
  /\ [][ ~(SelfPosts(posts') \subseteq SelfPosts(posts))
           => \E p \in SelfPosts(posts') \ SelfPosts(posts) :
                /\ p.body.countedCash = parseFloat(countedCash)
                /\ ~Missing(countedCash)
                /\ ~Negative(countedCash) ]_vars

C8_Witness ==
  /\ toast = "validation"
  /\ Negative(countedCash)
  /\ posts = {}
  /\ closures = <<>>
  /\ ~isPending

\* the outcome the claim asks for when an amount does not parse
ParseError == [error |-> "ParseError"]

Unparseable(s) == IsNaN(parseFloat(s))

\* C9 -- when a monetary field of the aggregation (total, subtotal or tax of a
\* delivered invoice, opening or counted cash) does not parse, the computation
\* fails with a ParseError and yields no summary; the amount is never taken as
\* zero nor folded into a result.
C9_UnparseableAmountFails ==
  /\ (\E i \in DeliveredIdx :
        \/ Unparseable(invoices[i].total)
        \/ Unparseable(invoices[i].subtotal)
        \/ Unparseable(invoices[i].tax))
       => dailySummary = ParseError
  /\ (FormShown /\ Unparseable(openingCash)) => systemCash = ParseError
  /\ (FormShown /\ Unparseable(countedCash)) => variance = ParseError

\* the sum of a field over the delivered invoices, read off the fields
RECURSIVE SumDelivered(_, _)
SumDelivered(field, n) ==
  IF n = 0 THEN FZero
  ELSE IF n \in DeliveredIdx
       THEN FAdd(SumDelivered(field, n - 1), parseFloat(invoices[n][field]))
       ELSE SumDelivered(field, n - 1)

\* C10 -- deliveredInvoices counts the invoices that are delivered and paid,
\* pendingInvoices those neither paid nor cancelled, totalInvoices all;
\* totalRevenue, totalSubtotal and totalTax sum the delivered invoices only;
\* no invoice is both delivered and pending.
C10_CountsAndTotals ==
  /\ dailySummary.totalInvoices = Len(invoices)
  /\ dailySummary.deliveredInvoices = Cardinality(DeliveredIdx)
  /\ dailySummary.pendingInvoices = Cardinality(PendingIdx)
  /\ DeliveredIdx \cap PendingIdx = {}
  /\ dailySummary.totalRevenue = SumDelivered("total", Len(invoices))
  /\ dailySummary.totalSubtotal = SumDelivered("subtotal", Len(invoices))
  /\ dailySummary.totalTax = SumDelivered("tax", Len(invoices))

C10_Witness ==
  /\ AllLoaded
  /\ Len(invoices) = 3
  /\ invoices[1].status = "delivered" /\ ~invoices[1].paid
  /\ invoices[2].status = "ready" /\ invoices[2].paid
  /\ 3 \in DeliveredIdx
  /\ dailySummary.deliveredInvoices = 1
  /\ dailySummary.pendingInvoices = 1
  /\ dailySummary.totalRevenue = parseFloat(invoices[3].total)
  /\ ~IsNaN(dailySummary.totalRevenue)

PermsOf(list) ==
  LET n == Len(list)
  IN  { [i \in 1..n |-> list[p[i]]] :
          p \in {f \in [1..n -> 1..n] : \A i, j \in 1..n : f[i] = f[j] => i = j} }

\* an object as the set of its entries, the order of its keys forgotten
EntriesOf(obj) == {<<obj[i].key, obj[i].val>> : i \in 1..Len(obj)}

SummaryEntries(d) ==
  [d EXCEPT !.paymentSummary = EntriesOf(@), !.employeeStats = EntriesOf(@)]

\* C11 -- the daily summary does not depend on the order of the payment-method
\* list, of the employee list or of the invoice list: every permutation of
\* them gives the same paymentSummary, employeeStats and totals, also when two
\* payment methods share a code or a name.
C11_OrderIrrelevant ==
  \A invs \in PermsOf(invoices), pms \in PermsOf(paymentMethods),
     emps \in PermsOf(employees) :
    SummaryEntries(DailySummaryOf(invs, pms, emps)) = SummaryEntries(dailySummary)

\* the inputs of the summary and of the system cash
summaryInputs == <<invoices, paymentMethods, employees, openingCash>>

\* C12 -- the same invoices, payment methods, employees and opening cash give
\* the same summary and system cash: a step that leaves these four as they are
\* leaves dailySummary and systemCash as they are, whatever else it changes
\* (counted cash, notes, the date's closure, the form, requests and replies),
\* and a recomputation changes none of the four beyond what the step set.
C12_SummaryReadsOnlyItsInputs ==
  /\ [][ summaryInputs' = summaryInputs
           => /\ dailySummary' = dailySummary
              /\ systemCash' = systemCash ]_vars
  /\ [][ (dailySummary' # dailySummary /\ openingCash' = openingCash)
           => \/ invoices' # invoices
              \/ paymentMethods' # paymentMethods
              \/ employees' # employees ]_vars

C12_Witness ==
  /\ FormShown
  /\ countedCash = <<"1", "4", "0", ".", "0", "0">>
  /\ openingCash = <<"1", "0", "0", ".", "0", "0">>
  /\ systemCash = FInt(150)
  /\ dailySummary.deliveredInvoices = 1

\* whether a list query has delivered its list
Available(q, loading) == ~loading /\ q \notin failed

\* C13 -- the three lists are fetched independently, and in every order of
\* completion the summary and the closure form are on screen only once all
\* three lists are available; while a fetch is outstanding, or after one has
\* failed, nothing computed from the default lists is shown.
C13_ShownOnlyWhenAllAvailable ==
  (Rendered \/ FormShown)
    => /\ Available("invoices", invoicesLoading)
       /\ Available("paymentMethods", paymentMethodsLoading)
       /\ Available("employees", employeesLoading)

\* an amount that is a number is not below zero
NonNegative(x) == IsNaN(x) \/ ~FLess(x, FZero)

\* C14 -- in every computed summary and every create request all amounts
\* (opening cash, counted cash, system cash, the totals of the payment summary
\* and of the employee statistics, revenue, subtotal, tax) are non-negative;
\* only the variance may be negative.
C14_AmountsNonNegative ==
  /\ NonNegative(dailySummary.totalRevenue)
  /\ NonNegative(dailySummary.totalSubtotal)
  /\ NonNegative(dailySummary.totalTax)
  /\ \A i \in 1..Len(dailySummary.paymentSummary) :
       NonNegative(dailySummary.paymentSummary[i].val.total)
  /\ \A i \in 1..Len(dailySummary.employeeStats) :
       NonNegative(dailySummary.employeeStats[i].val.total)
  /\ FormShown => /\ NonNegative(parseFloat(openingCash))
                  /\ NonNegative(systemCash)
  /\ \A p \in SelfPosts(posts) :
       /\ NonNegative(p.body.openingCash)
       /\ NonNegative(p.body.countedCash)

\* offsets from UTC, in hours, of zones the browser may be in
LocalOffsets == {0 - 4, 0, 2}

\* the invoices of the local calendar day `date` in the zone at `offset`
RECURSIVE LocalDayInvoices(_, _, _)
LocalDayInvoices(data, date, offset) ==
  IF data = <<>> THEN <<>>
  ELSE IF Head(data).date # NoDate
            /\ DayName(DayOf(Head(data).date[1], offset)) = date
       THEN <<Head(data)>> \o LocalDayInvoices(Tail(data), date, offset)
       ELSE LocalDayInvoices(Tail(data), date, offset)

\* C15 -- the invoices query leaves in the aggregation input exactly the
\* invoices whose date falls, in local time, on the selected date: an invoice
\* without a date is left out and one created late in the local day is not
\* moved to the next date.
C15_FilterByLocalDate ==
  [][ (invoicesLoading /\ ~invoicesLoading' /\ "invoices" \notin failed')
        => \A offset \in LocalOffsets :
             invoices' = LocalDayInvoices(invoiceStore, selectedDate, offset)
    ]_vars

\* C16 -- registration with organizationData is atomic: once a registration
\* request has ended, whatever step failed, the organization and its owner
\* user are both stored or neither is; no organization is left without the
\* user that registered it.
C16_RegistrationAtomic ==
  registrations = {}
    => /\ \A i \in 1..Len(organizations) :
            \E j \in 1..Len(users) :
              users[j].organizationId = <<organizations[i].id>>
       /\ \A j \in 1..Len(users) :
            users[j].organizationId # <<>>
              => \E i \in 1..Len(organizations) :
                   users[j].organizationId = <<organizations[i].id>>

\* a user row stored by a registration with that email and password
Registered(email, password) ==
  \E j \in 1..Len(users) :
    users[j].email = email /\ users[j].password = Hash(password)

\* C17 -- a user created by a successful registration can log in right away:
\* a user-login request with the same email and password, served with no
\* database call failing, is answered 200 with a session token, whose session
\* is stored.
C17_LoginRightAfterRegistration ==
  /\ [](\A j \in 1..Len(users) : users[j].isActive /\ users[j].isEmailVerified)
  /\ [][ \A req \in LoginRequests :
           (response'.handler = "user-login" /\ response'.req = req
              /\ UserLoginStep("user-login", req, "none")
              /\ Registered(req.body.email, req.body.password))
             => /\ response'.status = 200
                /\ response'.token # <<>>
                /\ \E i \in 1..Len(userSessions') :
                     <<userSessions'[i].token>> = response'.token ]_vars
  /\ [][ (response.handler = "register" /\ response.status = 201
            /\ Len(users') = Len(users) /\ response' # response
            /\ response'.handler = "user-login"
            /\ response'.req.body = LoginBody(response.req.body.email,
                                              response.req.body.password))
           => response'.status \in {200, 500} ]_vars

C17_Witness ==
  /\ response.handler = "user-login"
  /\ response.status = 200
  /\ response.token = <<1>>
  /\ response.req.body = LoginBody(LuisEmail, Other)
  /\ Len(users) = 1
  /\ users[1].organizationId = <<1>>
  /\ Len(userSessions) = 1

\* C18 -- sessions last 7 days: a session's expiresAt is its login time plus
\* 7 days; validation accepts its token at every time before expiresAt and
\* answers 401 at expiresAt and after; no operation changes the expiry of a
\* stored session.
C18_SessionsLastSevenDays ==
  /\ [](\A i \in 1..Len(userSessions) :
          userSessions[i].expiresAt = userSessions[i].createdAt + 7)
  /\ [][ \A req \in ValidateRequests, handler \in {"validate", "catchall"} :
           (response'.handler = handler /\ response'.req = req
              /\ ValidateStep(handler, req, TRUE)
              /\ \E i \in 1..Len(userSessions) :
                   <<userSessions[i].token>> = req.body.token)
             => LET i == CHOOSE k \in 1..Len(userSessions) :
                           <<userSessions[k].token>> = req.body.token
                IN  IF now < userSessions[i].expiresAt
                    THEN response'.status = 200
                    ELSE response'.status = 401 ]_vars
  /\ [][ /\ Len(userSessions') >= Len(userSessions)
         /\ \A i \in 1..Len(userSessions) :
              userSessions'[i] = userSessions[i] ]_vars

C18_Witness ==
  /\ response.handler = "validate"
  /\ response.status = 401
  /\ response.req.body.token = <<1>>
  /\ Len(userSessions) >= 1
  /\ userSessions[1].expiresAt = now
  /\ userSessions[1].createdAt = 0

SecurityHeaderNames ==
  {"X-Content-Type-Options", "X-Frame-Options", "X-XSS-Protection",
   "Referrer-Policy"}

HeaderNames(headers) == {h[1] : h \in headers}

\* C19 -- every response of the API handlers (health, register, user-login,
\* validate, the catch-all; preflight and error responses too) carries
\* X-Content-Type-Options, X-Frame-Options, X-XSS-Protection and
\* Referrer-Policy.
C19_SecurityHeadersOnEveryResponse ==
  response # NoResponse
    => SecurityHeaderNames \subseteq HeaderNames(response.headers)

\* C20 -- in production a response carries Access-Control-Allow-Origin exactly
\* when the request's Origin is one of the four production origins, and then
\* with that Origin as its value; for any other Origin, or none, it is not set.
C20_ProductionCorsOrigins ==
  (response # NoResponse /\ response.req.nodeEnv = "production")
    => /\ ("Access-Control-Allow-Origin" \in HeaderNames(response.headers))
            <=> (response.req.origin \in ProductionOrigins)
       /\ \A h \in response.headers :
            h[1] = "Access-Control-Allow-Origin" => h[2] = response.req.origin

\* every call of resend.emails.send the service has made, with the call of
\* the send method it belongs to
Attempts ==
  UNION { { [call |-> outbox[i], attempt |-> outbox[i].attempts[k]] :
              k \in 1..Len(outbox[i].attempts) } : i \in 1..Len(outbox) }

\* C21 (as stated) -- outside production every email of the service goes to
\* the development address and never to the intended recipient; in production
\* it goes to the intended recipient and never to the development address.
C21_NeverToTheOtherAddress ==
  config # <<>>
    => \A a \in Attempts :
         IF config[1].NODE_ENV # "production"
         THEN a.attempt.to = DEV_EMAIL /\ a.attempt.to # a.call.originalTo
         ELSE a.attempt.to = a.call.originalTo /\ a.attempt.to # DEV_EMAIL

\* C21 (amended) -- outside production every email of the service is addressed
\* to the development address, so the intended recipient gets it only when it
\* is the development address itself (the connection test); in production every
\* email is addressed to the intended recipient.
C21_RecipientByEnvironment ==
  config # <<>>
    => \A a \in Attempts :
         /\ config[1].NODE_ENV # "production" => a.attempt.to = DEV_EMAIL
         /\ config[1].NODE_ENV = "production"
              => a.attempt.to = a.call.originalTo
         /\ a.call.originalTo # DEV_EMAIL
              => (a.attempt.to = DEV_EMAIL
                    <=> config[1].NODE_ENV # "production")

C21_Witness ==
  /\ config # <<>>
  /\ config[1].NODE_ENV = "test"
  /\ Len(outbox) = 2
  /\ outbox[1].kind = "activation"
  /\ outbox[1].originalTo = "ana@lavanderia.do"
  /\ outbox[1].attempts[1].to = DEV_EMAIL
  /\ outbox[2].kind = "reset"
  /\ outbox[2].originalTo = "luis@lavanderia.do"
  /\ outbox[2].attempts[1].to = DEV_EMAIL

\* C22 -- outside production, a send from noreply@billtracky.com that fails
\* because the domain is not verified (403) is followed by a second attempt
\* from onboarding@resend.dev; in production the same failure makes the send
\* method return false with no second attempt.
C22_FallbackSender ==
  config # <<>>
    => \A i \in 1..Len(outbox) :
         LET call == outbox[i] IN
         (call.attempts[1].from = "noreply@billtracky.com"
            /\ call.attempts[1].outcome = "403")
           => IF config[1].NODE_ENV # "production"
              THEN /\ Len(call.attempts) >= 2
                   /\ call.attempts[2].from = "onboarding@resend.dev"
              ELSE Len(call.attempts) = 1 /\ ~call.result

\* the sessions of a token, and the stored users of a session
SessionsOf(token) ==
  {i \in 1..Len(userSessions) : <<userSessions[i].token>> = token}

ActiveOwners(session) ==
  {j \in 1..Len(users) : users[j].id = session.userId /\ users[j].isActive}

\* C23 -- validation answers valid:true only if a session with the token
\* exists, is unexpired, and its user exists and is active; once a user is
\* deactivated or deleted, a validation of any of that user's tokens is
\* answered 401, unexpired or not.
C23_ValidOnlyForActiveUsers ==
  /\ [][ \A req \in ValidateRequests, dbOk \in BOOLEAN :
           (response'.handler = "validate" /\ response'.req = req
              /\ response'.status = 200
              /\ ValidateStep("validate", req, dbOk))
             => \E i \in SessionsOf(req.body.token) :
                  /\ now < userSessions[i].expiresAt
                  /\ ActiveOwners(userSessions[i]) # {} ]_vars
  /\ [][ \A req \in ValidateRequests :
           (response'.handler = "validate" /\ response'.req = req
              /\ ValidateStep("validate", req, TRUE)
              /\ \E i \in SessionsOf(req.body.token) :
                   ActiveOwners(userSessions[i]) = {})
             => response'.status = 401 /\ response'.user = <<>> ]_vars

C23_Witness ==
  /\ response.handler = "validate"
  /\ response.status = 401
  /\ response.req.body.token = <<2>>
  /\ Len(userSessions) = 2
  /\ now < userSessions[2].expiresAt
  /\ Len(users) = 1
  /\ users[1].id = userSessions[2].userId
  /\ ~users[1].isActive

\* C24 -- no response of register, user-login or validate holds the password
\* hash or the emailVerificationToken of a user, and the user object in a
\* response is the stored user without those two fields.
C24_SafeUserIsStoredUser ==
  /\ [](response # NoResponse
          => \A k \in 1..Len(response.user) :
               {"password", "emailVerificationToken"}
                 \cap DOMAIN response.user[k] = {})
  /\ [][ (response' # response /\ response'.user # <<>>)
           => \E j \in 1..Len(users') :
                /\ users'[j].id = response'.user[1].id
                /\ response'.user[1] = SafeUser(users'[j]) ]_vars

\* C25 -- the sync worker runs only while the server listens: it is started
\* by the listening callback only, and no step closes the server and leaves it
\* running; the process ends with code 0 only in a step that emits 'close'
\* with no connection open and runs a waiting server.close callback, the
\* worker stopped.
C25_WorkerWithinListening ==
  /\ [](syncWorker = "running" => server = "listening")
  /\ [][ (syncWorker' = "running" /\ syncWorker # "running")
           => (server = "bound" /\ server' = "listening") ]_vars
  /\ [][ (server = "listening" /\ server' # "listening")
           => syncWorker' = "stopped" ]_vars
  /\ [][ (exitCode' = <<0>> /\ exitCode # <<0>>)
           => /\ closeCallbacks # <<>>
              /\ closeCallbacks' = <<>>
              /\ connections = 0
              /\ server' = "closed"
              /\ syncWorker = "stopped" ]_vars
  /\ [](exitCode = <<0>> => server = "closed" /\ syncWorker = "stopped")

\* the copy with process.exit(0) handled a SIGTERM or SIGINT, the server
\* emitted 'close' and the process ended with code 0
C25_Witness ==
  /\ build = "unnamed/part_000"
  /\ exitCode = <<0>>
  /\ server = "closed"
  /\ syncWorker = "stopped"
  /\ closeCallbacks = <<>>

\* C26 -- every run of the validation script that has ended has run the
\* security checks, and a run with a weak pattern in SESSION_SECRET or
\* JWT_SECRET has ended with a status other than 0.
C26_SecurityChecksDecide ==
  scriptExit # <<>>
    => /\ securityRan
       /\ (WeakSecret(scriptEnv[1].SESSION_SECRET)
             \/ WeakSecret(scriptEnv[1].JWT_SECRET))
            => scriptExit # <<0>>

====
